---------------------------- MODULE Spec2Model ----------------------------
(***************************************************************************)
(* A model of the tiled map library: the value model of src/data.rs (tile  *)
(* sets, the gid index built by Map::reorder_tilesets, the coordinate      *)
(* transforms), the TMX decoder of src/decoder.rs (scopes, handlers,       *)
(* load_map) and the layer-data decoder of src/deserial.rs.                *)
(*                                                                         *)
(* Conventions.                                                            *)
(*   - A Rust Vec is a sequence; Rust indexes from 0, so element i of a    *)
(*     Vec v is v[i + 1] here.                                             *)
(*   - Option<T> is a set with at most one element: None is {} and Some(x) *)
(*     is {x}.                                                             *)
(*   - u16 is the interval 0..U16Max.  U16Max stands for u16::MAX; it is   *)
(*     scaled down so that the gid index, whose length reaches             *)
(*     u16::MAX + 1, stays small.  Arithmetic that leaves the interval     *)
(*     either panics (a build with overflow checks, Rust's debug profile)  *)
(*     or wraps modulo U16Max + 1 (release profile); overflow_checks says  *)
(*     which build is running.                                             *)
(*   - f32 values are counted in quarters (the integer 4 * v): every       *)
(*     operand of the transforms is a u16, a half or three quarters of     *)
(*     one, and within the model's bounds all results are far below 2^24,  *)
(*     where f32 arithmetic on multiples of 1/4 is exact.                  *)
(***************************************************************************)
EXTENDS Integers, Sequences, FiniteSets, TLC

(***************************************************************************)
(* Bounds of the model.                                                    *)
(***************************************************************************)
\* The largest u16 of the model (u16::MAX, scaled down).
U16Max == 31
\* The largest number of tile-sets a map of the model holds.
MaxTileSets == 3
\* The largest number of tile-sets one add_tilesets call supplies.
MaxBatch == 2
\* The largest count of a tile-set whose last_id() and last_gid() are called.
MaxCount == 3
\* The largest tile id (key) of such a tile-set's collection.
MaxTileId == 2
\* The largest column and row passed to the coordinate transforms.
MaxCoord == 3

VARIABLES
    overflow_checks,  \* the build: TRUE panics on integer overflow, FALSE wraps
    panicked,         \* TRUE once an operation panicked; the program is gone
    tilesets,         \* Map::tilesets
    tileset_indexes,  \* Map::tileset_indexes
    size,             \* Map::size, in tiles
    tile_size,        \* Map::tile_size, in pixels
    orientation,      \* Map::orientation
    stagger_axis,     \* Map::stagger_axis
    call,             \* the last call of a query: its name, argument and result
    tiles,            \* Map::tiles
    object_groups,    \* Map::object_groups
    state,            \* TMXDecoder::state
    opened_starts,    \* the elements the XML reader has opened and not closed
    returned,         \* TRUE once load_map has returned the map
    opened            \* history: the elements opened so far in map scope

buildvars == <<overflow_checks, panicked>>
tilesetvars == <<tilesets, tileset_indexes>>
gridvars == <<size, tile_size, orientation, stagger_axis>>
layervars == <<tiles, object_groups>>
decodervars == <<state, opened_starts, returned, opened>>
vars == <<buildvars, tilesetvars, gridvars, call, layervars, decodervars>>

(***************************************************************************)
(* u16 arithmetic.                                                         *)
(***************************************************************************)
U16 == 0..U16Max

\* The value a wrapping build computes for the integer n.
Wrap(n) == n % (U16Max + 1)

\* Whether computing n in u16 panics in the running build.
OverflowPanics(n) == overflow_checks /\ (n < 0 \/ n > U16Max)

(***************************************************************************)
(* Option<T>.                                                              *)
(***************************************************************************)
NoneOpt == {}
Some(x) == {x}
Unwrap(o) == CHOOSE x \in o : TRUE

(***************************************************************************)
(* Tile, TilesOrigin, TileSet (src/data.rs).                               *)
(***************************************************************************)
Tile(id, image_path) == [id |-> id, image_path |-> image_path]

OriginNone == [kind |-> "None"]
OriginImage(image) == [kind |-> "Image", image |-> image]
\* A BTreeMap<u16, Tile> is a function from its keys to its tiles.
OriginCollection(collection) == [kind |-> "Collection", tiles |-> collection]

EmptyCollection == [k \in {} |-> Tile(0, "")]

\* TilesOrigin::new_collection
new_collection(tile) == OriginCollection([k \in {tile.id} |-> tile])

\* A mutant of insert_collection: a tile inserted into an origin that is no
\* collection is dropped.
insert_collection_dropping(origin, tile) ==
    IF origin.kind = "Collection"
    THEN OriginCollection([k \in DOMAIN origin.tiles \cup {tile.id} |->
                              IF k = tile.id THEN tile ELSE origin.tiles[k]])
    ELSE origin

\* TilesOrigin::insert_collection
insert_collection(origin, tile) ==
    IF origin.kind = "Collection"
    THEN OriginCollection([k \in DOMAIN origin.tiles \cup {tile.id} |->
                              IF k = tile.id THEN tile ELSE origin.tiles[k]])
    ELSE new_collection(tile)

\* TileSet::default()
TileSetDefault ==
    [firstgid |-> U16Max,
     size     |-> [x |-> 0, y |-> 0],
     count    |-> 0,
     columns  |-> 0,
     name     |-> "unnamed",
     origin   |-> OriginNone]

\* The greatest element of a non-empty set of integers.
MaxOf(S) == CHOOSE m \in S : \A k \in S : k <= m

\* A mutant of last_id: the per-tile collection is ignored.
last_id_ignoring_collection(ts) ==
    IF ts.count > 1 THEN ts.count - 1 ELSE 0

\* TileSet::last_id
last_id(ts) ==
    IF ts.origin.kind = "Collection"
    THEN IF DOMAIN ts.origin.tiles = {} THEN 0 ELSE MaxOf(DOMAIN ts.origin.tiles)
    ELSE IF ts.count > 1 THEN ts.count - 1 ELSE 0

\* TileSet::last_gid panics exactly when its sum overflows in a checked build.
last_gid_panics(ts) == OverflowPanics(ts.firstgid + last_id(ts))

\* TileSet::last_gid, when it returns.
last_gid(ts) == Wrap(ts.firstgid + last_id(ts))

(***************************************************************************)
(* The tile-sets callers supply to the model.                              *)
(***************************************************************************)
FirstGids == {0, 1, 3, U16Max}

Shapes ==
    { [count |-> 0, origin |-> OriginNone],
      [count |-> 2, origin |-> OriginNone],
      [count |-> 2, origin |-> OriginImage("img")],
      [count |-> 2, origin |-> new_collection(Tile(2, "img"))] }

TileSetInputs ==
    { [TileSetDefault EXCEPT !.firstgid = f, !.count = s.count, !.origin = s.origin] :
        f \in FirstGids, s \in Shapes }

BatchInputs ==
    UNION { [1..n -> TileSetInputs] : n \in 0..MaxBatch }

(***************************************************************************)
(* Map::reorder_tilesets.                                                  *)
(***************************************************************************)
\* One step of the insertion sort: t goes before the elements greater than it
\* and after those equal to it.
RECURSIVE InsertByFirstgid(_, _)
InsertByFirstgid(sorted, t) ==
    IF sorted = <<>> THEN <<t>>
    ELSE IF t.firstgid < sorted[Len(sorted)].firstgid
         THEN Append(InsertByFirstgid(SubSeq(sorted, 1, Len(sorted) - 1), t),
                     sorted[Len(sorted)])
         ELSE Append(sorted, t)

RECURSIVE InsertionSort(_)
InsertionSort(s) ==
    IF s = <<>> THEN <<>>
    ELSE InsertByFirstgid(InsertionSort(SubSeq(s, 1, Len(s) - 1)), s[Len(s)])

\* A mutant of the sort: the list is left in insertion order.
sort_skipped(s) == s

\* sort_unstable_by on firstgid.  A slice of at most 20 elements is sorted by
\* insertion (core::slice::sort), which moves an element only past strictly
\* greater ones; MaxTileSets is far below 20.
sort_unstable_by_firstgid(s) == InsertionSort(s)

\* n times the entry e.
Repeat(n, e) == [k \in 1..n |-> e]

\* A mutant of the gap filling: no None is pushed between two tile-sets.
gap_not_filled(last, firstgid) == 0

\* The number of None entries the range last_gid..(firstgid - 1) pushes.
gap(last, firstgid) ==
    LET hi == Wrap(firstgid - 1)
    IN  IF hi > last THEN hi - last ELSE 0

\* The loop over the sorted tile-sets, from the tile-set of index i on.
RECURSIVE index_loop(_, _, _, _)
index_loop(sorted, i, indexes, last) ==
    IF i >= Len(sorted) THEN [indexes |-> indexes, panicked |-> FALSE]
    ELSE LET tileset == sorted[i + 1]
             lid     == last_id(tileset)
             filled  == indexes \o Repeat(gap(last, tileset.firstgid), NoneOpt)
             pushed  == filled \o Repeat(lid + 1, Some(i))
         IN  IF OverflowPanics(tileset.firstgid - 1)
             THEN [indexes |-> indexes, panicked |-> TRUE]
             ELSE IF OverflowPanics(tileset.firstgid + lid)
             THEN [indexes |-> pushed, panicked |-> TRUE]
             ELSE index_loop(sorted, i + 1, pushed, Wrap(tileset.firstgid + lid))

\* A mutant of reorder_tilesets: the index is not cleared before it is rebuilt.
reorder_tilesets_not_cleared(ts, old_indexes) ==
    LET sorted == sort_unstable_by_firstgid(ts)
        built  == index_loop(sorted, 0, old_indexes \o <<NoneOpt>>, 0)
    IN  [tilesets |-> sorted, tileset_indexes |-> built.indexes,
         panicked |-> built.panicked]

\* Map::reorder_tilesets on a map holding the tile-sets ts and the index
\* old_indexes: the map's two fields afterwards, and whether it panicked.
reorder_tilesets(ts, old_indexes) ==
    LET sorted == sort_unstable_by_firstgid(ts)
        built  == index_loop(sorted, 0, <<NoneOpt>>, 0)
    IN  [tilesets |-> sorted, tileset_indexes |-> built.indexes,
         panicked |-> built.panicked]

\* Map::get_tileset: the tile-set of gid g, with the position it has in the list.
get_tileset_in(ts, indexes, g) ==
    IF g + 1 <= Len(indexes) /\ indexes[g + 1] # NoneOpt
    THEN LET i == Unwrap(indexes[g + 1])
         IN  IF i + 1 <= Len(ts) THEN Some(ts[i + 1]) ELSE NoneOpt
    ELSE NoneOpt

get_tileset(g) == get_tileset_in(tilesets, tileset_indexes, g)

\* Map::last_tileset
last_tileset ==
    IF tilesets = <<>> THEN NoneOpt ELSE Some(tilesets[Len(tilesets)])

(***************************************************************************)
(* The map's operations on its tile-sets.                                  *)
(***************************************************************************)
\* No query has been called.
NoCall == [fn |-> "none"]

\* Map::default(): the tile-set list and the gid index
DefaultTileSets ==
    /\ tilesets = <<>>
    /\ tileset_indexes = <<>>

\* Map::default(): the layer data and the object groups
DefaultLayers ==
    /\ tiles = <<>>
    /\ object_groups = <<>>

\* TMXState::Map
StMap == [kind |-> "Map"]

\* No element of map scope has been opened.
NothingOpened == [tilesets |-> 0, groups |-> <<>>, elements |-> 0]

\* TMXDecoder::_from: the decoder before its first event.  The map is used
\* without a decoder in the specifications of its own operations.
NewDecoder ==
    /\ state = StMap
    /\ opened_starts = 0
    /\ returned = FALSE
    /\ opened = NothingOpened

\* Map::default(): the grid
DefaultGrid ==
    /\ size = [x |-> 0, y |-> 0]
    /\ tile_size = [x |-> 0, y |-> 0]
    /\ orientation = "Orthogonal"
    /\ stagger_axis = "None"

\* Map::default(), in either build
Init ==
    /\ overflow_checks \in BOOLEAN
    /\ panicked = FALSE
    /\ DefaultTileSets
    /\ DefaultLayers
    /\ NewDecoder
    /\ DefaultGrid
    /\ call = NoCall

\* The effect of reorder_tilesets on the map whose tile-set list has become ts.
Reordered(ts) ==
    LET r == reorder_tilesets(ts, tileset_indexes)
    IN  /\ tilesets' = r.tilesets
        /\ tileset_indexes' = r.tileset_indexes
        /\ panicked' = r.panicked
        /\ UNCHANGED <<overflow_checks, gridvars, call, layervars, decodervars>>

\* Map::add_tileset
AddTileset ==
    /\ ~panicked
    /\ Len(tilesets) < MaxTileSets
    /\ \E tileset \in TileSetInputs :
          Reordered(Append(tilesets, tileset))

\* Map::add_tilesets
AddTilesets ==
    /\ ~panicked
    /\ \E batch \in BatchInputs :
          /\ Len(tilesets) + Len(batch) <= MaxTileSets
          /\ Reordered(tilesets \o batch)

\* Map::reorder_tilesets, called on its own
ReorderTilesets ==
    /\ ~panicked
    /\ Reordered(tilesets)

Next == AddTileset \/ AddTilesets \/ ReorderTilesets

Spec == Init /\ [][Next]_vars

(***************************************************************************)
(* TileSet::last_id and TileSet::last_gid, called on tile-sets of every    *)
(* origin.                                                                 *)
(***************************************************************************)
QueryOrigins ==
    {OriginNone, OriginImage("img")}
        \cup { OriginCollection([k \in keys |-> Tile(k, "img")]) :
                  keys \in SUBSET (0..MaxTileId) }

TileSetQueryInputs ==
    { [TileSetDefault EXCEPT !.firstgid = f, !.count = c, !.origin = o] :
        f \in {0, 1, U16Max - 1, U16Max}, c \in 0..MaxCount, o \in QueryOrigins }

\* A tile-set is at hand and none of its queries has been called.
InitTileSet ==
    /\ overflow_checks \in BOOLEAN
    /\ panicked = FALSE
    /\ DefaultTileSets
    /\ DefaultLayers
    /\ NewDecoder
    /\ DefaultGrid
    /\ \E ts \in TileSetQueryInputs : call = [fn |-> "none", arg |-> ts]

\* TileSet::last_id
CallLastId ==
    /\ ~panicked
    /\ call' = [fn |-> "last_id", arg |-> call.arg, result |-> last_id(call.arg)]
    /\ UNCHANGED <<buildvars, tilesetvars, gridvars, layervars, decodervars>>

\* TileSet::last_gid
CallLastGid ==
    /\ ~panicked
    /\ IF last_gid_panics(call.arg)
       THEN /\ panicked' = TRUE
            /\ call' = [fn |-> "last_gid", arg |-> call.arg]
       ELSE /\ panicked' = FALSE
            /\ call' = [fn |-> "last_gid", arg |-> call.arg,
                        result |-> last_gid(call.arg)]
    /\ UNCHANGED <<overflow_checks, tilesetvars, gridvars, layervars, decodervars>>

\* TilesOrigin::insert_collection, called on the tile-set's origin with a
\* tile of each id.
CallInsertCollection ==
    /\ call.fn = "none"
    /\ \E id \in 0..MaxTileId :
          call' = [fn |-> "insert_collection", arg |-> call.arg,
                   tile |-> Tile(id, "new"),
                   result |-> insert_collection(call.arg.origin, Tile(id, "new"))]
    /\ UNCHANGED <<buildvars, tilesetvars, gridvars, layervars, decodervars>>

NextTileSet == CallLastId \/ CallLastGid \/ CallInsertCollection

SpecTileSet == InitTileSet /\ [][NextTileSet]_vars

(***************************************************************************)
(* The grid: tile ids, grid coordinates, world coordinates.                *)
(***************************************************************************)
Point2(x, y) == [x |-> x, y |-> y]

\* f32::from(n) for a u16 n, in quarters.
f32_from(n) == 4 * n
\* v * 0.75 and v / 2.0 for an f32 v that is a whole number of quarters of a
\* u16 (a multiple of 4)
times_075(v) == (3 * v) \div 4
halved(v) == v \div 2
\* The product of two f32 values of which one is a whole number.
f32_mul(v, w) == (v * w) \div 4

\* tile % size.x and tile / size.x panic, in every build, when size.x is 0.
division_panics == size.x = 0

\* A mutant of tile_row: the tile is divided by the height of the map.
tile_row_by_height(tile) == tile \div size.y

\* Map::tile_column
tile_column(tile) == tile % size.x

\* Map::tile_row
tile_row(tile) == tile \div size.x

\* Map::coords
coords(tile) == Point2(tile_column(tile), tile_row(tile))

\* Map::tile_id panics when its product or its sum overflows in a checked build.
tile_id_panics(c) ==
    \/ OverflowPanics(c.y * size.x)
    \/ OverflowPanics(c.x + Wrap(c.y * size.x))

\* Map::tile_id, when it returns.
tile_id(c) == Wrap(c.x + Wrap(c.y * size.x))

\* Map::coords_stagger_axis
coords_stagger_axis(c) ==
    IF stagger_axis = "XAxis" /\ c.x % 2 = 1 THEN "XAxis"
    ELSE IF stagger_axis = "YAxis" /\ c.y % 2 = 1 THEN "YAxis"
    ELSE "None"

\* A mutant of tile_stagger_axis: the tile id is taken for its column.
tile_stagger_axis_of_id(tile) == coords_stagger_axis(Point2(tile, 0))

\* Map::tile_stagger_axis
tile_stagger_axis(tile) == coords_stagger_axis(coords(tile))

\* A mutant of the multiplier: three quarters on the axis that is not staggered.
multiplier_on_other_axis(tsize) ==
    IF orientation = "Hexagonal" /\ stagger_axis = "XAxis"
    THEN Point2(tsize.x, times_075(tsize.y))
    ELSE IF orientation = "Hexagonal" /\ stagger_axis = "YAxis"
    THEN Point2(times_075(tsize.x), tsize.y)
    ELSE tsize

\* Map::to_world_coords: the multiplier of the f32 tile size tsize
multiplier(tsize) ==
    IF orientation = "Hexagonal" /\ stagger_axis = "XAxis"
    THEN Point2(times_075(tsize.x), tsize.y)
    ELSE IF orientation = "Hexagonal" /\ stagger_axis = "YAxis"
    THEN Point2(tsize.x, times_075(tsize.y))
    ELSE tsize

\* A mutant of the offset: the offsets of the two stagger axes are exchanged.
stagger_offset_converse(axis, tsize) ==
    CASE axis = "YAxis" -> Point2(halved(tsize.x), tsize.y)
      [] axis = "XAxis" -> Point2(tsize.x, halved(tsize.y))
      [] axis = "None"  -> Point2(halved(tsize.x), halved(tsize.y))

\* A mutant of the offset: a tile without stagger axis is moved by a whole tile.
stagger_offset_whole(axis, tsize) ==
    CASE axis = "YAxis" -> Point2(tsize.x, halved(tsize.y))
      [] axis = "XAxis" -> Point2(halved(tsize.x), tsize.y)
      [] axis = "None"  -> Point2(tsize.x, tsize.y)

\* Map::to_world_coords: what is added to x and subtracted from y for a tile
\* of the given stagger axis
stagger_offset(axis, tsize) ==
    CASE axis = "YAxis" -> Point2(tsize.x, halved(tsize.y))
      [] axis = "XAxis" -> Point2(halved(tsize.x), tsize.y)
      [] axis = "None"  -> Point2(halved(tsize.x), halved(tsize.y))

\* Map::to_world_coords, in quarters
to_world_coords(map_coords) ==
    LET tsize  == Point2(f32_from(tile_size.x), f32_from(tile_size.y))
        mult   == multiplier(tsize)
        raw    == Point2(f32_mul(f32_from(map_coords.x), mult.x),
                         f32_mul(-f32_from(map_coords.y), mult.y))
        offset == stagger_offset(coords_stagger_axis(map_coords), tsize)
    IN  Point2(raw.x + offset.x, raw.y - offset.y)

\* The maps and the arguments of the model.
Sizes == {Point2(0, 0), Point2(1, 16), Point2(3, 2), Point2(16, 16)}
TileSizes == {Point2(0, 0), Point2(16, 16), Point2(16, 8), Point2(6, 10)}
Orientations == {"Orthogonal", "Isometric", "Staggered", "Hexagonal"}
StaggerAxes == {"XAxis", "YAxis", "None"}
GridCoords == {Point2(x, y) : x \in 0..MaxCoord, y \in 0..MaxCoord}

\* A map whose public grid fields have been set; no query has been called.
InitCoords ==
    /\ overflow_checks \in BOOLEAN
    /\ panicked = FALSE
    /\ DefaultTileSets
    /\ DefaultLayers
    /\ NewDecoder
    /\ size \in Sizes
    /\ tile_size \in TileSizes
    /\ orientation \in Orientations
    /\ stagger_axis \in StaggerAxes
    /\ call = NoCall

\* Map::coords
CallCoords ==
    /\ ~panicked
    /\ \E tile \in U16 :
          IF division_panics
          THEN /\ panicked' = TRUE
               /\ call' = [fn |-> "coords", arg |-> tile]
          ELSE /\ panicked' = FALSE
               /\ call' = [fn |-> "coords", arg |-> tile, result |-> coords(tile)]
    /\ UNCHANGED <<overflow_checks, tilesetvars, gridvars, layervars, decodervars>>

\* Map::tile_id
CallTileId ==
    /\ ~panicked
    /\ \E c \in GridCoords :
          IF tile_id_panics(c)
          THEN /\ panicked' = TRUE
               /\ call' = [fn |-> "tile_id", arg |-> c]
          ELSE /\ panicked' = FALSE
               /\ call' = [fn |-> "tile_id", arg |-> c, result |-> tile_id(c)]
    /\ UNCHANGED <<overflow_checks, tilesetvars, gridvars, layervars, decodervars>>

\* Map::to_world_coords
CallToWorldCoords ==
    /\ ~panicked
    /\ \E c \in GridCoords :
          call' = [fn |-> "to_world_coords", arg |-> c, result |-> to_world_coords(c)]
    /\ UNCHANGED <<buildvars, tilesetvars, gridvars, layervars, decodervars>>

\* Map::coords_stagger_axis
CallCoordsStaggerAxis ==
    /\ ~panicked
    /\ \E c \in GridCoords :
          call' = [fn |-> "coords_stagger_axis", arg |-> c,
                   result |-> coords_stagger_axis(c)]
    /\ UNCHANGED <<buildvars, tilesetvars, gridvars, layervars, decodervars>>

\* Map::tile_stagger_axis: coords divides by size.x first.
CallTileStaggerAxis ==
    /\ ~panicked
    /\ \E tile \in U16 :
          IF division_panics
          THEN /\ panicked' = TRUE
               /\ call' = [fn |-> "tile_stagger_axis", arg |-> tile]
          ELSE /\ panicked' = FALSE
               /\ call' = [fn |-> "tile_stagger_axis", arg |-> tile,
                           result |-> tile_stagger_axis(tile)]
    /\ UNCHANGED <<overflow_checks, tilesetvars, gridvars, layervars, decodervars>>

NextCoords ==
    \/ CallCoords
    \/ CallTileId
    \/ CallToWorldCoords
    \/ CallCoordsStaggerAxis
    \/ CallTileStaggerAxis

SpecCoords == InitCoords /\ [][NextCoords]_vars

(***************************************************************************)
(* Map::tile_gid, called on maps that hold layer data.                     *)
(***************************************************************************)
\* EMPTY_TILE
EMPTY_TILE == 0

\* Map::tile_gid, when tile_id returns: slice::get is None past the end.
tile_gid(c) ==
    IF tile_id(c) < Len(tiles) THEN tiles[tile_id(c) + 1] ELSE EMPTY_TILE

\* The layers of the model: none, one shorter than a row, one of two rows
\* of a map three tiles wide.
LayerTiles == {<<>>, <<5, 6>>, <<5, 6, 7, 1, 2, 3>>}

\* A map whose size and layer data have been set; no query has been called.
InitGid ==
    /\ overflow_checks \in BOOLEAN
    /\ panicked = FALSE
    /\ DefaultTileSets
    /\ NewDecoder
    /\ size \in Sizes
    /\ tile_size = Point2(0, 0)
    /\ orientation = "Orthogonal"
    /\ stagger_axis = "None"
    /\ tiles \in LayerTiles
    /\ object_groups = <<>>
    /\ call = NoCall

\* Map::tile_gid: tile_id runs first and may panic.
CallTileGid ==
    /\ ~panicked
    /\ \E c \in GridCoords :
          IF tile_id_panics(c)
          THEN /\ panicked' = TRUE
               /\ call' = [fn |-> "tile_gid", arg |-> c]
          ELSE /\ panicked' = FALSE
               /\ call' = [fn |-> "tile_gid", arg |-> c, result |-> tile_gid(c)]
    /\ UNCHANGED <<overflow_checks, tilesetvars, gridvars, layervars, decodervars>>

SpecGid == InitGid /\ [][CallTileGid]_vars

(***************************************************************************)
(* Text.  A string is the sequence of its characters, each a string of     *)
(* one character; the characters of the model are ASCII, for which         *)
(* String::from_utf8_lossy changes nothing.                                *)
(***************************************************************************)
Digits == <<"0", "1", "2", "3", "4", "5", "6", "7", "8", "9">>

is_digit(c) == \E d \in DOMAIN Digits : Digits[d] = c

\* char::to_digit(10) of a digit
to_digit(c) == (CHOOSE d \in DOMAIN Digits : Digits[d] = c) - 1

\* The integer the digits of s write, read from the left.
RECURSIVE digits_value(_, _)
digits_value(s, acc) ==
    IF s = <<>> THEN acc ELSE digits_value(Tail(s), 10 * acc + to_digit(Head(s)))

\* A mutant of the parse: a string that does not parse yields 0.
parse_u16_or_zero(s) ==
    LET ds == IF s # <<>> /\ Head(s) = "+" THEN Tail(s) ELSE s
    IN  IF /\ ds # <<>>
           /\ \A i \in DOMAIN ds : is_digit(ds[i])
           /\ digits_value(ds, 0) <= U16Max
        THEN Some(digits_value(ds, 0))
        ELSE Some(0)

\* str::parse::<u16>().ok(): an optional '+', then one digit at least and
\* digits only, and a value that fits u16; None for everything else.
parse_u16(s) ==
    LET ds == IF s # <<>> /\ Head(s) = "+" THEN Tail(s) ELSE s
    IN  IF /\ ds # <<>>
           /\ \A i \in DOMAIN ds : is_digit(ds[i])
           /\ digits_value(ds, 0) <= U16Max
        THEN Some(digits_value(ds, 0))
        ELSE NoneOpt

\* char::is_whitespace, on the characters of the model
is_whitespace(c) == c \in {" ", "\t", "\n", "\r"}

RECURSIVE trim_start(_)
trim_start(s) ==
    IF s # <<>> /\ is_whitespace(Head(s)) THEN trim_start(Tail(s)) ELSE s

RECURSIVE trim_end(_)
trim_end(s) ==
    IF s # <<>> /\ is_whitespace(s[Len(s)])
    THEN trim_end(SubSeq(s, 1, Len(s) - 1))
    ELSE s

\* str::trim
trim(s) == trim_end(trim_start(s))

\* The closure both decoders split on: |c| c == ',' || c == '\n'
is_separator(c) == c = "," \/ c = "\n"

\* str::split with that closure: the pieces between separators, empty ones
\* included; cur is the piece being read.
RECURSIVE split(_, _)
split(s, cur) ==
    IF s = <<>> THEN <<cur>>
    ELSE IF is_separator(Head(s)) THEN <<cur>> \o split(Tail(s), <<>>)
    ELSE split(Tail(s), Append(cur, Head(s)))

\* filter_map over the parses of the pieces, collected
RECURSIVE collect_some(_)
collect_some(options) ==
    IF options = <<>> THEN <<>>
    ELSE IF Head(options) = NoneOpt THEN collect_some(Tail(options))
    ELSE <<Unwrap(Head(options))>> \o collect_some(Tail(options))

\* decoder.rs data_text: the value it assigns to map.tiles
data_text(bytes) ==
    LET pieces == split(bytes, <<>>)
    IN  collect_some([i \in DOMAIN pieces |-> parse_u16(pieces[i])])

\* deserial.rs decode_csv_data
decode_csv_data(data) ==
    LET pieces == split(data, <<>>)
    IN  collect_some([i \in DOMAIN pieces |-> parse_u16(trim(pieces[i]))])

(***************************************************************************)
(* The two layer-data decoders, called on texts.                           *)
(***************************************************************************)
\* The longest text drawn from the alphabet.
MaxTextLen == 3

Alphabet == {"1", "4", "+", " ", ",", "\n"}

\* The layer data of the tests of decoder.rs and of deserial.rs, and two
\* texts whose numbers are surrounded by tabs and carriage returns.
SampleTexts ==
    { <<"0", ",", "0", ",", "0", ",", "\n", "3", ",", "2", ",", "1">>,
      <<"\n", " ", "0", ",", "0", ",", "\n", " ", "3", ",", "2", ",", "1">>,
      <<"\t", "3", "\r", ",", "4">>,
      <<"1", ",", "2", "\r", "\n", "3", ",", "x">> }

Texts ==
    UNION { [1..n -> Alphabet] : n \in 0..MaxTextLen } \cup SampleTexts

\* A layer-data text is at hand and no decoder has been called.
InitData ==
    /\ overflow_checks \in BOOLEAN
    /\ panicked = FALSE
    /\ DefaultTileSets
    /\ DefaultLayers
    /\ NewDecoder
    /\ DefaultGrid
    /\ \E txt \in Texts : call = [fn |-> "none", arg |-> txt]

\* decoder.rs data_text
CallDataText ==
    /\ call' = [fn |-> "data_text", arg |-> call.arg,
                result |-> data_text(call.arg)]
    /\ UNCHANGED <<buildvars, tilesetvars, gridvars, layervars, decodervars>>

\* deserial.rs decode_csv_data
CallDecodeCsvData ==
    /\ call' = [fn |-> "decode_csv_data", arg |-> call.arg,
                result |-> decode_csv_data(call.arg)]
    /\ UNCHANGED <<buildvars, tilesetvars, gridvars, layervars, decodervars>>

NextData == CallDataText \/ CallDecodeCsvData

SpecData == InitData /\ [][NextData]_vars

(***************************************************************************)
(* The TMX decoder (src/decoder.rs): the scopes of the document.           *)
(***************************************************************************)
\* Tile::default()
TileDefault == Tile(0, "empty path")

\* Object::default()
ObjectDefault ==
    [id |-> 0, gid |-> 0, coords |-> [x |-> 0, y |-> 0], size |-> [x |-> 0, y |-> 0]]

\* ObjectGroup::default()
ObjectGroupDefault == [id |-> 0, name |-> "", objects |-> <<>>]

\* enum TMXState; StMap is TMXState::Map.
StTileSet(tileset) == [kind |-> "TileSet", tileset |-> tileset]
StTileSetImage(tileset) == [kind |-> "TileSetImage", tileset |-> tileset]
StTile(tileset, tile) == [kind |-> "Tile", tileset |-> tileset, tile |-> tile]
StTileImage(tileset, tile) == [kind |-> "TileImage", tileset |-> tileset, tile |-> tile]
StGrid(tileset) == [kind |-> "Grid", tileset |-> tileset]
StLayer == [kind |-> "Layer"]
StData == [kind |-> "Data"]
StObjectGroup(group) == [kind |-> "ObjectGroup", group |-> group]
StObject(group, object) == [kind |-> "Object", group |-> group, object |-> object]
StUnknown(parent) == [kind |-> "Unknown", state |-> parent]

\* A mutant of into_child: inside an unknown element, a tileset element of
\* the map is recognized.
into_child_through_unknown(s, name) ==
    CASE s.kind = "Map" /\ name = "map" -> StMap
      [] s.kind = "Map" /\ name = "tileset" -> StTileSet(TileSetDefault)
      [] s.kind = "Map" /\ name = "layer" -> StLayer
      [] s.kind = "Map" /\ name = "objectgroup" -> StObjectGroup(ObjectGroupDefault)
      [] s.kind = "TileSet" /\ name = "image" -> StTileSetImage(s.tileset)
      [] s.kind = "TileSet" /\ name = "tile" -> StTile(s.tileset, TileDefault)
      [] s.kind = "TileSet" /\ name = "grid" -> StGrid(s.tileset)
      [] s.kind = "Tile" /\ name = "image" -> StTileImage(s.tileset, s.tile)
      [] s.kind = "Layer" /\ name = "data" -> StData
      [] s.kind = "ObjectGroup" /\ name = "object" -> StObject(s.group, ObjectDefault)
      [] s.kind = "Unknown" /\ name = "tileset" -> StTileSet(TileSetDefault)
      [] OTHER -> StUnknown(s)

\* TMXState::into_child
into_child(s, name) ==
    CASE s.kind = "Map" /\ name = "map" -> StMap
      [] s.kind = "Map" /\ name = "tileset" -> StTileSet(TileSetDefault)
      [] s.kind = "Map" /\ name = "layer" -> StLayer
      [] s.kind = "Map" /\ name = "objectgroup" -> StObjectGroup(ObjectGroupDefault)
      [] s.kind = "TileSet" /\ name = "image" -> StTileSetImage(s.tileset)
      [] s.kind = "TileSet" /\ name = "tile" -> StTile(s.tileset, TileDefault)
      [] s.kind = "TileSet" /\ name = "grid" -> StGrid(s.tileset)
      [] s.kind = "Tile" /\ name = "image" -> StTileImage(s.tileset, s.tile)
      [] s.kind = "Layer" /\ name = "data" -> StData
      [] s.kind = "ObjectGroup" /\ name = "object" -> StObject(s.group, ObjectDefault)
      [] OTHER -> StUnknown(s)

\* A mutant of into_parent: the parent of a tile is a new tile-set.
into_parent_forgetting(s) ==
    CASE s.kind = "Map" -> s
      [] s.kind \in {"TileSet", "Layer", "ObjectGroup"} -> StMap
      [] s.kind = "Tile" -> StTileSet(TileSetDefault)
      [] s.kind \in {"TileSetImage", "Grid"} -> StTileSet(s.tileset)
      [] s.kind = "TileImage" -> StTile(s.tileset, s.tile)
      [] s.kind = "Data" -> StLayer
      [] s.kind = "Object" -> StObjectGroup(s.group)
      [] s.kind = "Unknown" -> s.state

\* TMXState::into_parent
into_parent(s) ==
    CASE s.kind = "Map" -> s
      [] s.kind \in {"TileSet", "Layer", "ObjectGroup"} -> StMap
      [] s.kind \in {"Tile", "TileSetImage", "Grid"} -> StTileSet(s.tileset)
      [] s.kind = "TileImage" -> StTile(s.tileset, s.tile)
      [] s.kind = "Data" -> StLayer
      [] s.kind = "Object" -> StObjectGroup(s.group)
      [] s.kind = "Unknown" -> s.state

(***************************************************************************)
(* The decoder: attributes.  An attribute is a key and a value, both       *)
(* strings; chars gives the characters of a value.                         *)
(***************************************************************************)
Attribute(key, value) == [key |-> key, value |-> value]

\* The characters of a string of the model: the strings of the model have
\* one character, but for the ones listed.
chars(str) ==
    CASE str = "" -> <<>>
      [] str = "40" -> <<"4", "0">>
      [] OTHER -> <<str>>

\* str::to_ascii_lowercase, on the strings of the model
to_ascii_lowercase(str) ==
    CASE str = "X" -> "x"
      [] str = "Y" -> "y"
      [] str = "Hexagonal" -> "hexagonal"
      [] OTHER -> str

\* impl FromStr for Orientation
orientation_from_str(str) ==
    LET lower == to_ascii_lowercase(str)
    IN  CASE lower = "orthogonal" -> Some("Orthogonal")
          [] lower = "isometric" -> Some("Isometric")
          [] lower = "staggered" -> Some("Staggered")
          [] lower = "hexagonal" -> Some("Hexagonal")
          [] OTHER -> NoneOpt

\* impl FromStr for StaggerAxis
stagger_axis_from_str(str) ==
    LET lower == to_ascii_lowercase(str)
    IN  CASE lower = "x" -> Some("XAxis")
          [] lower = "y" -> Some("YAxis")
          [] OTHER -> NoneOpt

\* register_data: the new value of a buffer, given what the string parses to
register_data(buffer, parsed) ==
    IF parsed = NoneOpt THEN buffer ELSE Unwrap(parsed)

\* A mutant of register_u16: a value that fails to parse resets the buffer.
register_u16_resetting(buffer, str) == register_data(0, parse_u16(chars(str)))

\* register_data on a u16 buffer
register_u16(buffer, str) == register_data(buffer, parse_u16(chars(str)))

\* extract_image: the source of the image (the image's size is left out of
\* the model); Image::default() has the empty source.
RECURSIVE extract_image(_, _)
extract_image(attributes, source) ==
    IF attributes = <<>> THEN source
    ELSE extract_image(Tail(attributes),
                       IF Head(attributes).key = "source"
                       THEN Head(attributes).value ELSE source)

\* map_tag, on the grid fields of the map
RECURSIVE map_tag(_, _)
map_tag(attributes, map) ==
    IF attributes = <<>> THEN map
    ELSE LET a == Head(attributes)
             next ==
                CASE a.key = "width" ->
                        [map EXCEPT !.size.x = register_u16(@, a.value)]
                  [] a.key = "height" ->
                        [map EXCEPT !.size.y = register_u16(@, a.value)]
                  [] a.key = "tilewidth" ->
                        [map EXCEPT !.tile_size.x = register_u16(@, a.value)]
                  [] a.key = "tileheight" ->
                        [map EXCEPT !.tile_size.y = register_u16(@, a.value)]
                  [] a.key = "orientation" ->
                        [map EXCEPT !.orientation =
                            register_data(@, orientation_from_str(a.value))]
                  [] a.key = "staggeraxis" ->
                        [map EXCEPT !.stagger_axis =
                            register_data(@, stagger_axis_from_str(a.value))]
                  [] OTHER -> map
         IN  map_tag(Tail(attributes), next)

\* tileset_tag
RECURSIVE tileset_tag(_, _)
tileset_tag(attributes, tileset) ==
    IF attributes = <<>> THEN tileset
    ELSE LET a == Head(attributes)
             next ==
                CASE a.key = "firstgid" ->
                        [tileset EXCEPT !.firstgid = register_u16(@, a.value)]
                  [] a.key = "tilewidth" ->
                        [tileset EXCEPT !.size.x = register_u16(@, a.value)]
                  [] a.key = "tileheight" ->
                        [tileset EXCEPT !.size.y = register_u16(@, a.value)]
                  [] a.key = "tilecount" ->
                        [tileset EXCEPT !.count = register_u16(@, a.value)]
                  [] a.key = "columns" ->
                        [tileset EXCEPT !.columns = register_u16(@, a.value)]
                  [] a.key = "name" -> [tileset EXCEPT !.name = a.value]
                  [] OTHER -> tileset
         IN  tileset_tag(Tail(attributes), next)

\* tileset_image_tag
tileset_image_tag(attributes, tileset) ==
    [tileset EXCEPT !.origin = OriginImage(extract_image(attributes, ""))]

\* A mutant of tile_tag: the id attribute is not read.
tile_tag_ignoring_id(attributes, tile) == tile

\* tile_tag: the first attribute whose key is id
tile_tag(attributes, tile) ==
    LET ids == {i \in DOMAIN attributes : attributes[i].key = "id"}
    IN  IF ids = {} THEN tile
        ELSE LET first == CHOOSE i \in ids : \A j \in ids : i <= j
             IN  [tile EXCEPT !.id = register_u16(@, attributes[first].value)]

\* tile_image_tag
tile_image_tag(attributes, tile) ==
    [tile EXCEPT !.image_path = extract_image(attributes, "")]

\* object_group_tag
RECURSIVE object_group_tag(_, _)
object_group_tag(attributes, group) ==
    IF attributes = <<>> THEN group
    ELSE LET a == Head(attributes)
             next ==
                CASE a.key = "id" -> [group EXCEPT !.id = register_u16(@, a.value)]
                  [] a.key = "name" -> [group EXCEPT !.name = a.value]
                  [] OTHER -> group
         IN  object_group_tag(Tail(attributes), next)

\* object_tag
RECURSIVE object_tag(_, _)
object_tag(attributes, object) ==
    IF attributes = <<>> THEN object
    ELSE LET a == Head(attributes)
             next ==
                CASE a.key = "id" -> [object EXCEPT !.id = register_u16(@, a.value)]
                  [] a.key = "gid" -> [object EXCEPT !.gid = register_u16(@, a.value)]
                  [] a.key = "x" ->
                        [object EXCEPT !.coords.x = register_u16(@, a.value)]
                  [] a.key = "y" ->
                        [object EXCEPT !.coords.y = register_u16(@, a.value)]
                  [] a.key = "width" ->
                        [object EXCEPT !.size.x = register_u16(@, a.value)]
                  [] a.key = "height" ->
                        [object EXCEPT !.size.y = register_u16(@, a.value)]
                  [] OTHER -> object
         IN  object_tag(Tail(attributes), next)

(***************************************************************************)
(* The decoder: its handlers.  They work on the decoder's state s and on   *)
(* the map under construction, a record of the fields of Map they write.   *)
(***************************************************************************)
\* The map under construction.
MapNow ==
    [tilesets      |-> tilesets,
     size          |-> size,
     tile_size     |-> tile_size,
     orientation   |-> orientation,
     stagger_axis  |-> stagger_axis,
     tiles         |-> tiles,
     object_groups |-> object_groups]

Handled(s, map) == [state |-> s, map |-> map]

\* A mutant of tag: the attributes of an object are also read as those of
\* the map.
tag_leaking(s, attributes, map) ==
    CASE s.kind = "Map" -> Handled(s, map_tag(attributes, map))
      [] s.kind = "TileSet" ->
            Handled([s EXCEPT !.tileset = tileset_tag(attributes, @)], map)
      [] s.kind = "TileSetImage" ->
            Handled([s EXCEPT !.tileset = tileset_image_tag(attributes, @)], map)
      [] s.kind = "Tile" ->
            Handled([s EXCEPT !.tile = tile_tag(attributes, @)], map)
      [] s.kind = "TileImage" ->
            Handled([s EXCEPT !.tile = tile_image_tag(attributes, @)], map)
      [] s.kind = "ObjectGroup" ->
            Handled([s EXCEPT !.group = object_group_tag(attributes, @)], map)
      [] s.kind = "Object" ->
            Handled([s EXCEPT !.object = object_tag(attributes, @)],
                    map_tag(attributes, map))
      [] OTHER -> Handled(s, map)

\* TMXDecoder::tag
tag(s, attributes, map) ==
    CASE s.kind = "Map" -> Handled(s, map_tag(attributes, map))
      [] s.kind = "TileSet" ->
            Handled([s EXCEPT !.tileset = tileset_tag(attributes, @)], map)
      [] s.kind = "TileSetImage" ->
            Handled([s EXCEPT !.tileset = tileset_image_tag(attributes, @)], map)
      [] s.kind = "Tile" ->
            Handled([s EXCEPT !.tile = tile_tag(attributes, @)], map)
      [] s.kind = "TileImage" ->
            Handled([s EXCEPT !.tile = tile_image_tag(attributes, @)], map)
      [] s.kind = "ObjectGroup" ->
            Handled([s EXCEPT !.group = object_group_tag(attributes, @)], map)
      [] s.kind = "Object" ->
            Handled([s EXCEPT !.object = object_tag(attributes, @)], map)
      [] OTHER -> Handled(s, map)

\* A mutant of text: the text is decoded in every scope.
text_in_every_scope(s, bytes, map) == [map EXCEPT !.tiles = data_text(bytes)]

\* A mutant of text: the decoded text is appended to the layer data.
text_appending(s, bytes, map) ==
    IF s.kind = "Data" THEN [map EXCEPT !.tiles = @ \o data_text(bytes)] ELSE map

\* TMXDecoder::text
text(s, bytes, map) ==
    IF s.kind = "Data" THEN [map EXCEPT !.tiles = data_text(bytes)] ELSE map

\* A mutant of end: a tile-set is attached to the map when one of its tiles
\* closes.
end_attaching_at_tile(s, map) ==
    CASE s.kind = "TileSet" ->
            Handled(StMap, [map EXCEPT !.tilesets = Append(@, s.tileset)])
      [] s.kind = "Tile" ->
            Handled(StTileSet([s.tileset EXCEPT
                                  !.origin = insert_collection(@, s.tile)]),
                    [map EXCEPT !.tilesets = Append(@, s.tileset)])
      [] s.kind = "ObjectGroup" ->
            Handled(StMap, [map EXCEPT !.object_groups = Append(@, s.group)])
      [] s.kind = "Object" ->
            Handled(StObjectGroup([s.group EXCEPT !.objects = Append(@, s.object)]),
                    map)
      [] OTHER -> Handled(into_parent(s), map)

\* A mutant of end: an object that closes is left out of its group.
end_dropping_object(s, map) ==
    CASE s.kind = "TileSet" ->
            Handled(StMap, [map EXCEPT !.tilesets = Append(@, s.tileset)])
      [] s.kind = "Tile" ->
            Handled(StTileSet([s.tileset EXCEPT
                                  !.origin = insert_collection(@, s.tile)]),
                    map)
      [] s.kind = "ObjectGroup" ->
            Handled(StMap, [map EXCEPT !.object_groups = Append(@, s.group)])
      [] OTHER -> Handled(into_parent(s), map)

\* A mutant of end: groups and objects that close are put first.
end_prepending(s, map) ==
    CASE s.kind = "TileSet" ->
            Handled(StMap, [map EXCEPT !.tilesets = Append(@, s.tileset)])
      [] s.kind = "Tile" ->
            Handled(StTileSet([s.tileset EXCEPT
                                  !.origin = insert_collection(@, s.tile)]),
                    map)
      [] s.kind = "ObjectGroup" ->
            Handled(StMap, [map EXCEPT !.object_groups = <<s.group>> \o @])
      [] s.kind = "Object" ->
            Handled(StObjectGroup([s.group EXCEPT !.objects = <<s.object>> \o @]),
                    map)
      [] OTHER -> Handled(into_parent(s), map)

\* TMXDecoder::end
end(s, map) ==
    CASE s.kind = "TileSet" ->
            Handled(StMap, [map EXCEPT !.tilesets = Append(@, s.tileset)])
      [] s.kind = "Tile" ->
            Handled(StTileSet([s.tileset EXCEPT
                                  !.origin = insert_collection(@, s.tile)]),
                    map)
      [] s.kind = "ObjectGroup" ->
            Handled(StMap, [map EXCEPT !.object_groups = Append(@, s.group)])
      [] s.kind = "Object" ->
            Handled(StObjectGroup([s.group EXCEPT !.objects = Append(@, s.object)]),
                    map)
      [] OTHER -> Handled(into_parent(s), map)

(***************************************************************************)
(* The decoder: load_map, one action per event of the XML reader.          *)
(***************************************************************************)
\* The deepest nesting of elements in the documents of the model.
MaxDepth == 3
\* The largest number of tileset, tile, objectgroup and object elements a
\* document of the model opens in the scope that recognizes them.
MaxElements == 2

\* The element names of the documents: the nine of decoder.rs and one more.
Names ==
    {"map", "tileset", "image", "tile", "grid", "layer", "data",
     "objectgroup", "object", "properties"}

\* The attribute lists an element of each name carries in the documents.
AttributesOf(name) ==
    CASE name = "tileset" -> {<<>>, <<Attribute("firstgid", "1")>>}
      [] name = "image" -> {<<Attribute("source", "a")>>}
      [] name = "tile" -> {<<>>, <<Attribute("id", "1")>>}
      [] name = "objectgroup" -> {<<Attribute("id", "1")>>, <<Attribute("id", "2")>>}
      [] name = "object" -> {<<Attribute("id", "1")>>, <<Attribute("id", "2")>>}
      [] OTHER -> {<<>>}

\* The texts of the documents.
EventTexts == {<<"1", ",", "x", "\n", "2">>}

\* load_map is in its loop.
Running == ~panicked /\ ~returned

\* load_map starts: Map::default() and a new decoder, in either build.
InitDecoder ==
    /\ overflow_checks \in BOOLEAN
    /\ panicked = FALSE
    /\ DefaultTileSets
    /\ DefaultLayers
    /\ NewDecoder
    /\ DefaultGrid
    /\ call = NoCall

\* The decoder's state and the map become what a handler returned.
Decoded(h) ==
    /\ state' = h.state
    /\ tilesets' = h.map.tilesets
    /\ size' = h.map.size
    /\ tile_size' = h.map.tile_size
    /\ orientation' = h.map.orientation
    /\ stagger_axis' = h.map.stagger_axis
    /\ tiles' = h.map.tiles
    /\ object_groups' = h.map.object_groups

\* A mutant of empty: the element is entered and never left.
empty_without_end(s, name, attributes, map) ==
    tag(into_child(s, name), attributes, map)

\* load_map, the arm of Event::Empty: into_child, tag, then end.
empty(s, name, attributes, map) ==
    LET h == tag(into_child(s, name), attributes, map)
    IN  end(h.state, h.map)

\* The element opened from state s creates a tile-set, a tile, an object
\* group or an object.
CreatesEntity(s, name) ==
    into_child(s, name).kind \in {"TileSet", "Tile", "ObjectGroup", "Object"}

\* The history once an element of that name has been opened from state s:
\* tile-sets and object groups opened in map scope are counted, and for each
\* group the objects opened in it.
Opening(s, name) ==
    [tilesets |-> IF s.kind = "Map" /\ name = "tileset"
                  THEN opened.tilesets + 1 ELSE opened.tilesets,
     groups   |-> IF s.kind = "Map" /\ name = "objectgroup"
                  THEN Append(opened.groups, 0)
                  ELSE IF s.kind = "ObjectGroup" /\ name = "object"
                  THEN [opened.groups EXCEPT ![Len(opened.groups)] = @ + 1]
                  ELSE opened.groups,
     elements |-> IF CreatesEntity(s, name)
                  THEN opened.elements + 1 ELSE opened.elements]

\* load_map, Event::Start
Start(name, attributes) ==
    /\ Running
    /\ opened_starts < MaxDepth
    /\ CreatesEntity(state, name) => opened.elements < MaxElements
    /\ Decoded(tag(into_child(state, name), attributes, MapNow))
    /\ opened_starts' = opened_starts + 1
    /\ opened' = Opening(state, name)
    /\ UNCHANGED <<buildvars, tileset_indexes, call, returned>>

\* load_map, Event::Empty
Empty(name, attributes) ==
    /\ Running
    /\ CreatesEntity(state, name) => opened.elements < MaxElements
    /\ Decoded(empty(state, name, attributes, MapNow))
    /\ opened' = Opening(state, name)
    /\ UNCHANGED <<buildvars, tileset_indexes, call, returned, opened_starts>>

\* load_map, Event::Text
Text(bytes) ==
    /\ Running
    /\ Decoded(Handled(state, text(state, bytes, MapNow)))
    /\ UNCHANGED <<buildvars, tileset_indexes, call, returned, opened_starts, opened>>

\* A mutant of read_end: the reader does not check its end tags.
read_end_unchecked(depth) == "End"

\* Reader::read_event on an end tag, with depth elements open.  The decoder
\* leaves the reader's check of end names on: an end tag that closes no open
\* element is an error, any other is Event::End.
read_end(depth) == IF depth > 0 THEN "End" ELSE "Err"

\* load_map, Event::End: the reader closes the element it opened last.
End ==
    /\ Running
    /\ read_end(opened_starts) = "End"
    /\ Decoded(end(state, MapNow))
    /\ opened_starts' = opened_starts - 1
    /\ UNCHANGED <<buildvars, tileset_indexes, call, returned, opened>>

\* load_map, Event::Eof: the loop ends, the tile-sets are reordered and the
\* map is returned.
Eof ==
    /\ Running
    /\ LET r == reorder_tilesets(tilesets, tileset_indexes)
       IN  /\ tilesets' = r.tilesets
           /\ tileset_indexes' = r.tileset_indexes
           /\ panicked' = r.panicked
           /\ returned' = ~r.panicked
    /\ UNCHANGED <<overflow_checks, gridvars, layervars, call,
                   state, opened_starts, opened>>

\* load_map, Err on an end tag: panic!
EndMismatch ==
    /\ Running
    /\ read_end(opened_starts) = "Err"
    /\ panicked' = TRUE
    /\ UNCHANGED <<overflow_checks, tilesetvars, gridvars, layervars, call,
                   decodervars>>

NextDecoder ==
    \/ \E name \in Names : \E attributes \in AttributesOf(name) :
          Start(name, attributes)
    \/ \E name \in Names : \E attributes \in AttributesOf(name) :
          Empty(name, attributes)
    \/ \E bytes \in EventTexts : Text(bytes)
    \/ End
    \/ EndMismatch
    \/ Eof

SpecDecoder == InitDecoder /\ [][NextDecoder]_vars

(***************************************************************************)
(* TMXState::into_child and TMXState::into_parent, called on scopes of     *)
(* every kind.                                                             *)
(***************************************************************************)
SomeTileSets ==
    { TileSetDefault,
      [TileSetDefault EXCEPT !.firstgid = 1,
                             !.origin = new_collection(Tile(1, "a"))] }

SomeTiles == {TileDefault, Tile(1, "a")}

SomeObjects == {ObjectDefault, [ObjectDefault EXCEPT !.id = 2]}

SomeObjectGroups ==
    { ObjectGroupDefault,
      [ObjectGroupDefault EXCEPT !.id = 1,
                                 !.objects = <<[ObjectDefault EXCEPT !.id = 1]>>] }

\* The scopes that are not Unknown.
KnownScopes ==
    {StMap, StLayer, StData}
        \cup {StTileSet(ts) : ts \in SomeTileSets}
        \cup {StTileSetImage(ts) : ts \in SomeTileSets}
        \cup {StGrid(ts) : ts \in SomeTileSets}
        \cup {StTile(ts, t) : ts \in SomeTileSets, t \in SomeTiles}
        \cup {StTileImage(ts, t) : ts \in SomeTileSets, t \in SomeTiles}
        \cup {StObjectGroup(g) : g \in SomeObjectGroups}
        \cup {StObject(g, o) : g \in SomeObjectGroups, o \in SomeObjects}

Scopes ==
    KnownScopes
        \cup {StUnknown(s) : s \in KnownScopes}
        \cup {StUnknown(StUnknown(s)) : s \in KnownScopes}

\* The decoder is in some scope, the map has no layer data or the data of an
\* earlier layer; no function has been called.
InitState ==
    /\ overflow_checks \in BOOLEAN
    /\ panicked = FALSE
    /\ DefaultTileSets
    /\ tiles \in {<<>>, <<7>>}
    /\ object_groups = <<>>
    /\ DefaultGrid
    /\ state \in Scopes
    /\ opened_starts = 0
    /\ returned = FALSE
    /\ opened = NothingOpened
    /\ call = NoCall

\* TMXState::into_child
CallIntoChild ==
    /\ call.fn = "none"
    /\ \E name \in Names :
          /\ state' = into_child(state, name)
          /\ call' = [fn |-> "into_child", arg |-> state, name |-> name]
    /\ UNCHANGED <<buildvars, tilesetvars, gridvars, layervars,
                   opened_starts, returned, opened>>

\* TMXState::into_parent, called on the child into_child returned; before is
\* the scope into_child was called on.
CallIntoParent ==
    /\ call.fn = "into_child"
    /\ state' = into_parent(state)
    /\ call' = [fn |-> "into_parent", arg |-> state, name |-> call.name,
                before |-> call.arg]
    /\ UNCHANGED <<buildvars, tilesetvars, gridvars, layervars,
                   opened_starts, returned, opened>>

\* TMXDecoder::text
CallText ==
    /\ call.fn = "none"
    /\ \E bytes \in EventTexts :
          /\ Decoded(Handled(state, text(state, bytes, MapNow)))
          /\ call' = [fn |-> "text", arg |-> bytes,
                      before |-> Handled(state, MapNow)]
    /\ UNCHANGED <<buildvars, tileset_indexes, opened_starts, returned, opened>>

\* The attribute lists of the elements: none, the keys several scopes share,
\* and an id that does not parse.
StartAttributes ==
    { <<>>,
      <<Attribute("id", "4"), Attribute("name", "n"),
        Attribute("width", "4"), Attribute("height", "4")>>,
      <<Attribute("id", "x")>> }

\* load_map, Event::Start
CallStart ==
    /\ call.fn = "none"
    /\ \E name \in Names : \E attributes \in StartAttributes :
          /\ Decoded(tag(into_child(state, name), attributes, MapNow))
          /\ call' = [fn |-> "start", name |-> name, arg |-> attributes,
                      before |-> Handled(state, MapNow)]
    /\ UNCHANGED <<buildvars, tileset_indexes, opened_starts, returned, opened>>

\* load_map, Event::End, for the element Start has just opened
CallEnd ==
    /\ call.fn = "start"
    /\ Decoded(end(state, MapNow))
    /\ call' = [call EXCEPT !.fn = "end"]
    /\ UNCHANGED <<buildvars, tileset_indexes, opened_starts, returned, opened>>

\* load_map, Event::Empty
CallEmpty ==
    /\ call.fn = "none"
    /\ \E name \in Names : \E attributes \in StartAttributes :
          /\ Decoded(empty(state, name, attributes, MapNow))
          /\ call' = [fn |-> "empty", name |-> name, arg |-> attributes,
                      before |-> Handled(state, MapNow)]
    /\ UNCHANGED <<buildvars, tileset_indexes, opened_starts, returned, opened>>

NextState ==
    \/ CallIntoChild
    \/ CallIntoParent
    \/ CallText
    \/ CallStart
    \/ CallEnd
    \/ CallEmpty

SpecState == InitState /\ [][NextState]_vars

(***************************************************************************)
(* TMXDecoder::tag, called in the map scope and in a tile-set scope with   *)
(* attributes whose values parse or fail to parse.                         *)
(***************************************************************************)
TagKeys == {"width", "orientation", "staggeraxis", "firstgid", "tilecount", "name"}

\* "4" is a u16; "40" is a number too large for the model's u16; "x" is a
\* stagger axis and no number; "Hexagonal" is an orientation only.
TagValues == {"4", "40", "x", "Hexagonal"}

\* The attribute lists of a start tag: none, one or two attributes.
TagAttributes ==
    LET all == {Attribute(k, v) : k \in TagKeys, v \in TagValues}
    IN  {<<>>} \cup {<<a>> : a \in all} \cup {<<a, b>> : a \in all, b \in all}

\* The decoder has just entered the map scope or a tile-set scope; the map
\* holds default or previously set values.
InitTag ==
    /\ overflow_checks \in BOOLEAN
    /\ panicked = FALSE
    /\ DefaultTileSets
    /\ DefaultLayers
    /\ size \in {Point2(0, 0), Point2(3, 2)}
    /\ tile_size = Point2(0, 0)
    /\ orientation \in {"Orthogonal", "Staggered"}
    /\ stagger_axis = "None"
    /\ state \in {StMap} \cup {StTileSet(ts) : ts \in SomeTileSets}
    /\ opened_starts = 0
    /\ returned = FALSE
    /\ opened = NothingOpened
    /\ call = NoCall

\* TMXDecoder::tag
CallTag ==
    /\ call.fn = "none"
    /\ \E attributes \in TagAttributes :
          /\ Decoded(tag(state, attributes, MapNow))
          /\ call' = [fn |-> "tag", arg |-> attributes,
                      before |-> Handled(state, MapNow)]
    /\ UNCHANGED <<buildvars, tileset_indexes, opened_starts, returned, opened>>

SpecTag == InitTag /\ [][CallTag]_vars

(***************************************************************************)
(* The children of a tile-set, decoded by the two decoders: load_map, to   *)
(* which each child is an Event::Empty, and TileSetVisitor::visit_map.     *)
(***************************************************************************)
\* The child elements of the model: an image, tiles of two ids, a tile
\* without id and a tile whose id is no number; a tile-set has up to three
\* of them, in any order.
OriginChildren ==
    LET all == { [name |-> "image", attributes |-> <<Attribute("source", "a")>>],
                 [name |-> "tile", attributes |-> <<Attribute("id", "1")>>],
                 [name |-> "tile", attributes |-> <<Attribute("id", "2")>>],
                 [name |-> "tile", attributes |-> <<>>],
                 [name |-> "tile", attributes |-> <<Attribute("id", "x")>>] }
    IN  {<<>>} \cup {<<a>> : a \in all} \cup {<<a, b>> : a \in all, b \in all}
            \cup {<<a, b, c>> : a \in all, b \in all, c \in all}

\* load_map on a sequence of empty elements: into_child, tag and end for
\* each; the decoder's state afterwards (these elements leave the map as it
\* is).
RECURSIVE load_map_empty(_, _, _)
load_map_empty(s, children, map) ==
    IF children = <<>> THEN s
    ELSE LET c == Head(children)
             h == empty(s, c.name, c.attributes, map)
         IN  load_map_empty(h.state, Tail(children), h.map)

\* TilesOrigin::new_collection_from
RECURSIVE new_collection_from(_)
new_collection_from(some_tiles) ==
    IF some_tiles = <<>> THEN OriginCollection(EmptyCollection)
    ELSE insert_collection(
            new_collection_from(SubSeq(some_tiles, 1, Len(some_tiles) - 1)),
            some_tiles[Len(some_tiles)])

\* TileSetVisitor::visit_map on the child elements of a tile-set.  The
\* value of the key "tile" is the Vec of the tiles that follow one another;
\* a key met once the origin is set is only warned about.
RECURSIVE visit_map(_, _)
visit_map(children, tileset) ==
    IF children = <<>> THEN tileset
    ELSE LET c == Head(children)
             run == CHOOSE n \in 0..Len(children) :
                        /\ \A k \in 1..n : children[k].name = "tile"
                        /\ n < Len(children) => children[n + 1].name # "tile"
         IN  CASE c.name = "image" /\ tileset.origin = OriginNone ->
                    visit_map(Tail(children),
                              [tileset EXCEPT !.origin =
                                  OriginImage(extract_image(c.attributes, ""))])
               [] c.name = "tile" /\ tileset.origin = OriginNone ->
                    visit_map(SubSeq(children, run + 1, Len(children)),
                              [tileset EXCEPT !.origin =
                                  new_collection_from(
                                      [k \in 1..run |->
                                          tile_tag(children[k].attributes,
                                                   TileDefault)])])
               [] OTHER -> visit_map(Tail(children), tileset)

\* A new tile-set has been entered; its children are at hand.
InitOrigin ==
    /\ overflow_checks \in BOOLEAN
    /\ panicked = FALSE
    /\ DefaultTileSets
    /\ DefaultLayers
    /\ DefaultGrid
    /\ state = StTileSet(TileSetDefault)
    /\ opened_starts = 1
    /\ returned = FALSE
    /\ opened = NothingOpened
    /\ \E children \in OriginChildren : call = [fn |-> "none", arg |-> children]

\* The tag-document decoder reads the children.
CallLoadMap ==
    /\ call.fn = "none"
    /\ state' = load_map_empty(state, call.arg, MapNow)
    /\ call' = [fn |-> "load_map", arg |-> call.arg]
    /\ UNCHANGED <<buildvars, tilesetvars, gridvars, layervars,
                   opened_starts, returned, opened>>

\* The structured decoder reads the same children into a new tile-set.
CallVisitMap ==
    /\ call.fn = "load_map"
    /\ call' = [fn |-> "visit_map", arg |-> call.arg,
                result |-> visit_map(call.arg, TileSetDefault)]
    /\ UNCHANGED <<buildvars, tilesetvars, gridvars, layervars, decodervars>>

SpecOrigin == InitOrigin /\ [][CallLoadMap \/ CallVisitMap]_vars

(***************************************************************************)
(* Properties of the gid index.                                            *)
(***************************************************************************)
Positions == 1..Len(tilesets)

\* reorder_tilesets has run on the map and returned.
Normalized == ~panicked /\ tileset_indexes # <<>>

\* g lies in [ts.firstgid, ts.last_gid()].
InRange(ts, g) == ts.firstgid <= g /\ g <= last_gid(ts)

\* Every tile-set has firstgid >= 1 and a last gid that is a u16, and the
\* ranges of two tile-sets never meet.
DisjointRanges ==
    /\ \A i \in Positions :
          /\ tilesets[i].firstgid >= 1
          /\ tilesets[i].firstgid + last_id(tilesets[i]) <= U16Max
    /\ \A i, j \in Positions :
          i # j => \A g \in U16 : ~(InRange(tilesets[i], g) /\ InRange(tilesets[j], g))

\* C1: when every tile-set has firstgid >= 1 and the ranges
\* [firstgid, last_gid()] are pairwise disjoint, the adds did not panic and
\* get_tileset(g) is the tile-set ts for every g of ts's range.
C1_RangeResolves ==
    DisjointRanges =>
        /\ ~panicked
        /\ \A i \in Positions : \A g \in U16 :
              InRange(tilesets[i], g) => get_tileset(g) = Some(tilesets[i])

\* Three tile-sets with ranges [1,2], [3,5] and [U16Max,U16Max]: the gids of
\* the second resolve to it, across the gap that follows no gid resolves.
C1_Witness ==
    /\ Len(tilesets) = 3
    /\ DisjointRanges
    /\ tilesets[1].firstgid = 1 /\ last_gid(tilesets[1]) = 2
    /\ tilesets[2].firstgid = 3 /\ last_gid(tilesets[2]) = 5
    /\ tilesets[3].firstgid = U16Max
    /\ get_tileset(3) = Some(tilesets[2])
    /\ get_tileset(5) = Some(tilesets[2])
    /\ get_tileset(U16Max) = Some(tilesets[3])

\* C2: in a normalized map get_tileset(g) is None for g = 0, for every g
\* greater than the last tile-set's last_gid(), and for every g in the gap
\* between the ranges of two consecutive tile-sets.
C2_NoneOutsideRanges ==
    Normalized =>
        /\ get_tileset(0) = NoneOpt
        /\ \A g \in U16 :
              (last_tileset # NoneOpt /\ g > last_gid(Unwrap(last_tileset)))
                  => get_tileset(g) = NoneOpt
        /\ \A i \in Positions : \A g \in U16 :
              (/\ i < Len(tilesets)
               /\ last_gid(tilesets[i]) < g
               /\ g < tilesets[i + 1].firstgid)
                  => get_tileset(g) = NoneOpt

\* C3: in a normalized map, whatever the tile-sets' firstgid and count,
\* get_tileset(g) is the tile-set ts if and only if g # 0 and ts is the one
\* tile-set of the map whose range [firstgid, last_gid()] holds g.
C3_IndexIffUniqueRange ==
    Normalized =>
        \A i \in Positions : \A g \in U16 :
            get_tileset(g) = Some(tilesets[i])
                <=> /\ g # 0
                    /\ InRange(tilesets[i], g)
                    /\ \A j \in Positions : InRange(tilesets[j], g) => j = i

\* C4: tilesets() is sorted in ascending firstgid order, and last_tileset()
\* is None on a map without tile-set and otherwise a tile-set whose firstgid
\* is the greatest of the map.
C4_SortedByFirstgid ==
    /\ \A i, j \in Positions :
          i < j => tilesets[i].firstgid <= tilesets[j].firstgid
    /\ tilesets = <<>> => last_tileset = NoneOpt
    /\ tilesets # <<>> =>
          /\ last_tileset # NoneOpt
          /\ \A i \in Positions :
                tilesets[i].firstgid <= Unwrap(last_tileset).firstgid

\* A normalized map of three tile-sets with three different firstgid.
C4_Witness ==
    /\ Normalized
    /\ Len(tilesets) = 3
    /\ tilesets[1].firstgid < tilesets[2].firstgid
    /\ tilesets[2].firstgid < tilesets[3].firstgid
    /\ Unwrap(last_tileset).firstgid = U16Max

\* C5: reorder_tilesets run on a normalized map returns and leaves the
\* tile-set order and the gid index as they are.
C5_ReorderIdempotent ==
    Normalized =>
        LET again == reorder_tilesets(tilesets, tileset_indexes)
        IN  /\ ~again.panicked
            /\ again.tilesets = tilesets
            /\ again.tileset_indexes = tileset_indexes

\* A normalized map of three tile-sets, two of them with the same firstgid
\* and different contents, whose index holds entries of each.
C5_Witness ==
    /\ Normalized
    /\ Len(tilesets) = 3
    /\ tilesets[1].firstgid = tilesets[2].firstgid
    /\ tilesets[1] # tilesets[2]
    /\ \A i \in 0..2 : \E k \in 1..Len(tileset_indexes) : tileset_indexes[k] = Some(i)

\* The orders in which the tile-sets of the sequence s can be supplied.
Orders(s) ==
    { [k \in 1..Len(s) |-> s[f[k]]] : f \in Permutations(1..Len(s)) }

\* C6: the normalized map does not depend on the order in which its
\* tile-sets were supplied: every order yields the same tilesets() and the
\* same tile-set for every gid.
C6_OrderIndependent ==
    Normalized =>
        \A order \in Orders(tilesets) :
            LET other == reorder_tilesets(order, <<>>)
            IN  /\ other.tilesets = tilesets
                /\ \A g \in U16 :
                      get_tileset_in(other.tilesets, other.tileset_indexes, g)
                          = get_tileset(g)

(***************************************************************************)
(* Properties of TileSet::last_id and TileSet::last_gid.                   *)
(***************************************************************************)
\* The last local id the tile-set ts is to have: the greatest key of its
\* collection (0 when it has none) whatever its count, and without a
\* collection count - 1 when count > 1, 0 when count is 0 or 1.
ExpectedLastId(ts) ==
    IF ts.origin.kind = "Collection"
    THEN LET keys == DOMAIN ts.origin.tiles
         IN  IF keys = {} THEN 0
             ELSE CHOOSE k \in keys : \A other \in keys : other <= k
    ELSE CASE ts.count = 0 -> 0
           [] ts.count = 1 -> 0
           [] OTHER        -> ts.count - 1

\* C7: last_id() is the greatest key of a per-tile collection (0 for an
\* empty one) regardless of count, otherwise count - 1 when count > 1 and 0
\* when count is 0 or 1; last_gid(), when it returns, is the u16 sum
\* firstgid + last_id(): the sum itself when it is at most u16::MAX.
C7_LastId ==
    /\ call.fn = "last_id" => call.result = ExpectedLastId(call.arg)
    /\ (call.fn = "last_gid" /\ ~panicked) =>
          LET sum == call.arg.firstgid + ExpectedLastId(call.arg)
          IN  /\ sum <= U16Max => call.result = sum
              /\ sum > U16Max => call.result = sum - (U16Max + 1)
    /\ (call.fn = "last_gid" /\ panicked) =>
          call.arg.firstgid + ExpectedLastId(call.arg) > U16Max

\* last_id() was called on a tile-set of count 1 whose collection holds the
\* keys 0 and MaxTileId, and returned MaxTileId.
C7_Witness ==
    /\ call.fn = "last_id"
    /\ call.arg.count = 1
    /\ call.arg.origin.kind = "Collection"
    /\ DOMAIN call.arg.origin.tiles = {0, MaxTileId}
    /\ call.result = MaxTileId

(***************************************************************************)
(* Properties of the coordinate transforms.  World coordinates are in      *)
(* quarters: the f32 v is the integer 4 * v.                               *)
(***************************************************************************)
\* C8: on a map with size.x > 0, coords(i) = (i mod size.x, i div size.x)
\* for every tile i, and tile_id(coords(i)) returns
\* coords(i).y * size.x + coords(i).x, which is i; with width 16,
\* coords(19) = (3, 1) and tile_id((3, 1)) = 19.
C8_CoordsRoundTrip ==
    /\ size.x > 0 =>
          \A i \in U16 :
              /\ coords(i) = Point2(i % size.x, i \div size.x)
              /\ ~tile_id_panics(coords(i))
              /\ tile_id(coords(i)) = coords(i).y * size.x + coords(i).x
              /\ tile_id(coords(i)) = i
    /\ (size.x > 0 /\ call.fn = "coords") =>
          /\ ~panicked
          /\ call.result = Point2(call.arg % size.x, call.arg \div size.x)
          /\ call.result.y * size.x + call.result.x = call.arg
    /\ size.x = 16 =>
          /\ coords(19) = Point2(3, 1)
          /\ tile_id(Point2(3, 1)) = 19

\* coords(19) was called on a map 16 tiles wide and returned (3, 1), whose
\* tile id is 19.
C8_Witness ==
    /\ size.x = 16
    /\ call.fn = "coords"
    /\ call.arg = 19
    /\ ~panicked
    /\ call.result = Point2(3, 1)
    /\ tile_id(call.result) = 19

\* The tile at c has no effective stagger axis: the map has none, or the
\* tile's column (axis X) or row (axis Y) is even.
NoEffectiveAxis(c) ==
    \/ stagger_axis = "None"
    \/ stagger_axis = "XAxis" /\ c.x % 2 = 0
    \/ stagger_axis = "YAxis" /\ c.y % 2 = 0

HexagonalStaggered == orientation = "Hexagonal" /\ stagger_axis # "None"

\* The centre of the tile at c on a grid of full tiles, y pointing up.
TileCentre(c) ==
    Point2(4 * (c.x * tile_size.x) + 2 * tile_size.x,
           -(4 * (c.y * tile_size.y)) - 2 * tile_size.y)

\* C9: for a tile without effective stagger axis, on a map that is not
\* hexagonal with a stagger axis, to_world_coords((c, r)) is
\* (c * tile_size.x + tile_size.x / 2, -(r * tile_size.y) - tile_size.y / 2);
\* on an orthogonal map with 16x16 tiles (3, 1) maps to (56, -24).
C9_TileCentre ==
    /\ ~HexagonalStaggered =>
          \A c \in GridCoords :
              NoEffectiveAxis(c) => to_world_coords(c) = TileCentre(c)
    /\ (/\ ~HexagonalStaggered
        /\ call.fn = "to_world_coords"
        /\ NoEffectiveAxis(call.arg)) => call.result = TileCentre(call.arg)
    /\ (/\ orientation = "Orthogonal"
        /\ stagger_axis = "None"
        /\ tile_size = Point2(16, 16)) =>
          to_world_coords(Point2(3, 1)) = Point2(4 * 56, -(4 * 24))

\* to_world_coords((3, 1)) was called on an orthogonal map without stagger
\* axis, with 16x16 tiles, and returned (56, -24).
C9_Witness ==
    /\ orientation = "Orthogonal"
    /\ stagger_axis = "None"
    /\ tile_size = Point2(16, 16)
    /\ call.fn = "to_world_coords"
    /\ call.arg = Point2(3, 1)
    /\ call.result = Point2(4 * 56, -(4 * 24))

\* The multiplier the map is to use, in quarters: three quarters of the tile
\* size on the stagger axis of a hexagonal map, the tile size everywhere else.
ExpectedMultiplier ==
    Point2(IF orientation = "Hexagonal" /\ stagger_axis = "XAxis"
               THEN 3 * tile_size.x ELSE 4 * tile_size.x,
           IF orientation = "Hexagonal" /\ stagger_axis = "YAxis"
               THEN 3 * tile_size.y ELSE 4 * tile_size.y)

Hexagonal16(axis) ==
    /\ orientation = "Hexagonal"
    /\ stagger_axis = axis
    /\ tile_size = Point2(16, 16)

\* C10: the multiplier is 0.75 * tile size on the stagger axis of a
\* hexagonal map and the tile size on the other axis and in every other
\* orientation: two columns (rows) further, a tile lies two multipliers to
\* the right (below).  With 16x16 tiles, axis X maps (2, 2) to (32, -40) and
\* (3, 2) to (44, -48), axis Y maps (2, 2) to (40, -32) and (2, 3) to
\* (48, -44).
C10_HexagonalMultiplier ==
    /\ multiplier(Point2(f32_from(tile_size.x), f32_from(tile_size.y)))
          = ExpectedMultiplier
    /\ \A c \in GridCoords :
          /\ c.x + 2 <= MaxCoord =>
                to_world_coords(Point2(c.x + 2, c.y)).x
                    = to_world_coords(c).x + 2 * ExpectedMultiplier.x
          /\ c.y + 2 <= MaxCoord =>
                to_world_coords(Point2(c.x, c.y + 2)).y
                    = to_world_coords(c).y - 2 * ExpectedMultiplier.y
    /\ Hexagonal16("XAxis") =>
          /\ to_world_coords(Point2(2, 2)) = Point2(4 * 32, -(4 * 40))
          /\ to_world_coords(Point2(3, 2)) = Point2(4 * 44, -(4 * 48))
    /\ Hexagonal16("YAxis") =>
          /\ to_world_coords(Point2(2, 2)) = Point2(4 * 40, -(4 * 32))
          /\ to_world_coords(Point2(2, 3)) = Point2(4 * 48, -(4 * 44))

\* to_world_coords((3, 2)) was called on a hexagonal map staggered on X, with
\* 16x16 tiles, and returned (44, -48).
C10_Witness ==
    /\ Hexagonal16("XAxis")
    /\ call.fn = "to_world_coords"
    /\ call.arg = Point2(3, 2)
    /\ call.result = Point2(4 * 44, -(4 * 48))

\* The position of the tile at c before its offset: column and row times the
\* multiplier, y pointing up.
RawPosition(c) ==
    Point2(c.x * ExpectedMultiplier.x, -(c.y * ExpectedMultiplier.y))

OddOnX(c) == stagger_axis = "XAxis" /\ c.x % 2 = 1
OddOnY(c) == stagger_axis = "YAxis" /\ c.y % 2 = 1

\* The offset of the tile at c, in quarters: what to_world_coords added to x
\* and subtracted from y.
AppliedOffset(c) ==
    Point2(to_world_coords(c).x - RawPosition(c).x,
           RawPosition(c).y - to_world_coords(c).y)

\* C11 as stated: a tile odd on stagger axis X is moved by the tile width
\* horizontally and half the tile height vertically, a tile odd on stagger
\* axis Y by half the tile width and the tile height, every other tile by
\* half a tile on both axes.
C11_OffsetsAsStated ==
    \A c \in GridCoords :
        /\ OddOnX(c) =>
              AppliedOffset(c) = Point2(4 * tile_size.x, 2 * tile_size.y)
        /\ OddOnY(c) =>
              AppliedOffset(c) = Point2(2 * tile_size.x, 4 * tile_size.y)
        /\ NoEffectiveAxis(c) =>
              AppliedOffset(c) = Point2(2 * tile_size.x, 2 * tile_size.y)

\* C11, amended: a tile odd on stagger axis X is moved by half the tile width
\* horizontally and the tile height vertically, a tile odd on stagger axis Y
\* by the tile width horizontally and half the tile height vertically, every
\* other tile by half a tile on both axes.
C11_StaggerOffsets ==
    /\ \A c \in GridCoords :
          /\ OddOnX(c) =>
                AppliedOffset(c) = Point2(2 * tile_size.x, 4 * tile_size.y)
          /\ OddOnY(c) =>
                AppliedOffset(c) = Point2(4 * tile_size.x, 2 * tile_size.y)
          /\ NoEffectiveAxis(c) =>
                AppliedOffset(c) = Point2(2 * tile_size.x, 2 * tile_size.y)
    /\ (call.fn = "to_world_coords" /\ OddOnX(call.arg)) =>
          call.result = Point2(RawPosition(call.arg).x + 2 * tile_size.x,
                               RawPosition(call.arg).y - 4 * tile_size.y)
    /\ (call.fn = "to_world_coords" /\ OddOnY(call.arg)) =>
          call.result = Point2(RawPosition(call.arg).x + 4 * tile_size.x,
                               RawPosition(call.arg).y - 2 * tile_size.y)

\* to_world_coords((1, 2)) was called on a staggered map with stagger axis X
\* and 6x10 tiles: the tile is odd on X and lies at (6 + 3, -20 - 10).
C11_Witness ==
    /\ orientation = "Staggered"
    /\ stagger_axis = "XAxis"
    /\ tile_size = Point2(6, 10)
    /\ call.fn = "to_world_coords"
    /\ call.arg = Point2(1, 2)
    /\ call.result = Point2(4 * 9, -(4 * 30))

\* The stagger axis of the tile at c: the map's axis when that axis is X and
\* the column is odd, or is Y and the row is odd.
EffectiveAxis(c) ==
    IF OddOnX(c) THEN "XAxis" ELSE IF OddOnY(c) THEN "YAxis" ELSE "None"

\* C12: coords_stagger_axis((c, r)) is XAxis iff the map's stagger axis is
\* XAxis and c is odd, YAxis iff the map's stagger axis is YAxis and r is
\* odd, None otherwise (on a map without stagger axis, for every tile);
\* tile_stagger_axis(i) is coords_stagger_axis(coords(i)).
C12_StaggerAxisResolution ==
    /\ \A c \in GridCoords :
          /\ coords_stagger_axis(c) = "XAxis" <=> OddOnX(c)
          /\ coords_stagger_axis(c) = "YAxis" <=> OddOnY(c)
          /\ coords_stagger_axis(c) = "None" <=> ~OddOnX(c) /\ ~OddOnY(c)
          /\ stagger_axis = "None" => coords_stagger_axis(c) = "None"
    /\ call.fn = "coords_stagger_axis" => call.result = EffectiveAxis(call.arg)
    /\ (call.fn = "tile_stagger_axis" /\ ~panicked) =>
          /\ call.result = coords_stagger_axis(coords(call.arg))
          /\ call.result
                = EffectiveAxis(Point2(call.arg % size.x, call.arg \div size.x))

\* tile_stagger_axis(19) was called on a map 16 tiles wide with stagger axis
\* X: the tile lies in column 3 and its axis is X.
C12_Witness ==
    /\ size.x = 16
    /\ stagger_axis = "XAxis"
    /\ call.fn = "tile_stagger_axis"
    /\ call.arg = 19
    /\ ~panicked
    /\ call.result = "XAxis"

(***************************************************************************)
(* Properties of the layer-data decoders.                                  *)
(***************************************************************************)
\* The positions of the separators of a text, and the positions at which
\* its tokens start: the first position and the one after every separator.
SeparatorPositions(txt) ==
    {i \in DOMAIN txt : txt[i] = "," \/ txt[i] = "\n"}

TokenStarts(txt) == {1} \cup {i + 1 : i \in SeparatorPositions(txt)}

\* The token that starts at position a: the characters up to the next
\* separator or to the end of the text.
TokenFrom(txt, a) ==
    LET stops == {i \in SeparatorPositions(txt) \cup {Len(txt) + 1} : i >= a}
        stop  == CHOOSE i \in stops : \A j \in stops : i <= j
    IN  SubSeq(txt, a, stop - 1)

DigitCharacters == {"0", "1", "2", "3", "4", "5", "6", "7", "8", "9"}

\* The number written by a string of digits, from its last digit.
RECURSIVE PlaceValue(_)
PlaceValue(ds) ==
    IF ds = <<>> THEN 0
    ELSE 10 * PlaceValue(SubSeq(ds, 1, Len(ds) - 1))
            + (CHOOSE v \in 0..9 : Digits[v + 1] = ds[Len(ds)])

\* The digits of a token: the token without the '+' it may start with.
DigitsOf(tok) == IF tok # <<>> /\ tok[1] = "+" THEN SubSeq(tok, 2, Len(tok)) ELSE tok

\* The token parses as an unsigned integer of 16 bits (of the model's width):
\* digits, one at least, after an optional '+', writing a number that fits.
ParsesAsUnsigned(tok) ==
    /\ DigitsOf(tok) # <<>>
    /\ \A i \in DOMAIN DigitsOf(tok) : DigitsOf(tok)[i] \in DigitCharacters
    /\ PlaceValue(DigitsOf(tok)) <= U16Max

\* r holds, in order, the values of the tokens of text that parse once
\* Strip has been applied to them, and nothing else.
HoldsParsedTokens(r, txt, Strip(_)) ==
    LET parsing == {a \in TokenStarts(txt) :
                        ParsesAsUnsigned(Strip(TokenFrom(txt, a)))}
        Nth(k)  == CHOOSE a \in parsing :
                        Cardinality({b \in parsing : b <= a}) = k
    IN  /\ Len(r) = Cardinality(parsing)
        /\ \A k \in 1..Len(r) :
              r[k] = PlaceValue(DigitsOf(Strip(TokenFrom(txt, Nth(k)))))

Unstripped(tok) == tok

\* The token without the spaces, tabs and carriage returns around it.
RECURSIVE Stripped(_)
Stripped(tok) ==
    IF tok # <<>> /\ tok[1] \in {" ", "\t", "\r"}
    THEN Stripped(SubSeq(tok, 2, Len(tok)))
    ELSE IF tok # <<>> /\ tok[Len(tok)] \in {" ", "\t", "\r"}
    THEN Stripped(SubSeq(tok, 1, Len(tok) - 1))
    ELSE tok

TestLayerData == <<"0", ",", "0", ",", "0", ",", "\n", "3", ",", "2", ",", "1">>

\* C18: data_text splits the text on ',' and newline and yields, in order,
\* exactly the values of the tokens that parse as an unsigned integer;
\* tokens that do not parse, the empty ones included, are dropped and not
\* replaced by 0, so the result may be shorter than the grid; the text
\* "0,0,0,\n3,2,1" decodes to [0, 0, 0, 3, 2, 1].
C18_DataTextTokens ==
    /\ call.fn = "data_text" =>
          /\ HoldsParsedTokens(call.result, call.arg, Unstripped)
          /\ Len(call.result) <= Cardinality(TokenStarts(call.arg))
    /\ data_text(TestLayerData) = <<0, 0, 0, 3, 2, 1>>

\* data_text was called on "0,0,0,\n3,2,1", whose seven tokens include an
\* empty one, and returned the six values [0, 0, 0, 3, 2, 1].
C18_Witness ==
    /\ call.fn = "data_text"
    /\ call.arg = TestLayerData
    /\ Cardinality(TokenStarts(call.arg)) = 7
    /\ call.result = <<0, 0, 0, 3, 2, 1>>

\* C19: both decoders tolerate whitespace around tokens: a token made of an
\* unsigned integer surrounded by spaces, tabs or carriage returns is decoded
\* to that integer by data_text as by decode_csv_data, and not dropped.
C19_WhitespaceTolerated ==
    call.fn \in {"data_text", "decode_csv_data"} =>
        HoldsParsedTokens(call.result, call.arg, Stripped)

\* C20: the two decoding paths agree on tile data: data_text and
\* decode_csv_data produce the same tiles for every layer-data text.
C20_DecodersAgree ==
    call.fn \in {"data_text", "decode_csv_data"} =>
        data_text(call.arg) = decode_csv_data(call.arg)

(***************************************************************************)
(* Properties of the decoder's scopes.                                     *)
(***************************************************************************)
\* The tile-set or the object group a scope carries for its parent, if any.
ParentEntity(s) ==
    IF s.kind \in {"TileSet", "TileSetImage", "Tile", "TileImage", "Grid"}
    THEN Some(s.tileset)
    ELSE IF s.kind \in {"ObjectGroup", "Object"} THEN Some(s.group)
    ELSE NoneOpt

\* C13: leaving is the inverse of entering: for every scope s and every tag
\* name n, into_parent(into_child(s, n)) has the kind of s and carries the
\* same tile-set or object group, unchanged; into_parent of an Unknown state
\* is exactly the state it wraps, and so is the way back from an unknown tag.
C13_LeaveInvertsEnter ==
    /\ \A n \in Names :
          /\ into_parent(into_child(state, n)).kind = state.kind
          /\ ParentEntity(into_parent(into_child(state, n))) = ParentEntity(state)
          /\ into_child(state, n).kind = "Unknown" =>
                into_parent(into_child(state, n)) = state
    /\ state.kind = "Unknown" => into_parent(state) = state.state
    /\ call.fn = "into_parent" =>
          /\ state.kind = call.before.kind
          /\ ParentEntity(state) = ParentEntity(call.before)
          /\ call.arg.kind = "Unknown" => state = call.arg.state
          /\ call.before.kind = "Unknown" => state = call.before

\* into_child(s, "tile") was called on the scope of a tile-set that holds a
\* tile, and into_parent on the Tile scope it returned: the state is s again.
C13_Witness ==
    /\ call.fn = "into_parent"
    /\ call.name = "tile"
    /\ call.arg.kind = "Tile"
    /\ call.before.kind = "TileSet"
    /\ call.before.tileset.origin.kind = "Collection"
    /\ state = call.before

\* The pairs of a scope and a tag name that into_child recognizes.
Recognized(kind, name) ==
    <<kind, name>> \in
        { <<"Map", "map">>, <<"Map", "tileset">>, <<"Map", "layer">>,
          <<"Map", "objectgroup">>, <<"TileSet", "image">>,
          <<"TileSet", "tile">>, <<"TileSet", "grid">>, <<"Tile", "image">>,
          <<"Layer", "data">>, <<"ObjectGroup", "object">> }

MapUnchanged == UNCHANGED <<tilesetvars, gridvars, layervars>>

\* The scope an Unknown state wraps, however deeply.
RECURSIVE Innermost(_)
Innermost(s) == IF s.kind = "Unknown" THEN Innermost(s.state) ELSE s

\* The step handles a Start, Empty, Text or End event.
EventStep == Running /\ ~returned' /\ ~panicked'

\* C14: an unrecognized (scope, tag) pair is no error: it moves the decoder
\* to Unknown wrapping the state it had, with the map as it was; inside that
\* subtree no Start, Empty, Text or End event changes the map or an entity
\* under construction, whatever the names of the nested tags; when the
\* subtree closes, the state is the one held before it was entered.
C14_UnknownSubtree ==
    /\ [](Running =>
            \A name \in Names : \A attributes \in AttributesOf(name) :
                ~Recognized(state.kind, name) =>
                    /\ into_child(state, name) = StUnknown(state)
                    /\ tag(into_child(state, name), attributes, MapNow)
                          = Handled(StUnknown(state), MapNow)
                    /\ end(StUnknown(state), MapNow) = Handled(state, MapNow))
    /\ [][/\ (state.kind = "Unknown" /\ EventStep) =>
                /\ MapUnchanged
                /\ Innermost(state') = Innermost(state)
                /\ state' \in {state, StUnknown(state), state.state}
          /\ (state.kind # "Unknown" /\ state'.kind = "Unknown") =>
                /\ state' = StUnknown(state)
                /\ MapUnchanged
                /\ ~panicked'
          /\ (state.kind = "Unknown" /\ End) => state' = state.state
         ]_vars

\* Two elements were opened inside a tile-set that has its firstgid, the
\* first of an unknown name: the state is Unknown twice around the tile-set's
\* scope and the map holds nothing.
C14_Witness ==
    /\ state.kind = "Unknown"
    /\ state.state.kind = "Unknown"
    /\ state.state.state.kind = "TileSet"
    /\ state.state.state.tileset.firstgid = 1
    /\ opened_starts = 3
    /\ tilesets = <<>>

\* s is t with one more element, at the end.
Extends(s, t) == Len(s) = Len(t) + 1 /\ SubSeq(s, 1, Len(t)) = t

TileSetScopes == {"TileSet", "TileSetImage", "Tile", "TileImage", "Grid"}

\* The tiles a tile-set holds.
TilesOf(tileset) ==
    IF tileset.origin.kind = "Collection" THEN tileset.origin.tiles
    ELSE EmptyCollection

\* The step closes a tile scope.
ClosesTile ==
    \/ state.kind = "Tile" /\ End
    \/ /\ state.kind = "TileSet"
       /\ \E attributes \in AttributesOf("tile") : Empty("tile", attributes)

\* C15: a tile-set under construction is not in the map's list while its
\* scope or a scope below it (image, tile, tile image, grid, unknown) is
\* open, and it is appended once, when its scope closes; a tile is inserted
\* into its tile-set's origin exactly when the tile scope closes, the state
\* being then TileSet with the updated tile-set, not attached to the map.
C15_AttachedOnClose ==
    /\ [](~panicked =>
            Len(tilesets) = opened.tilesets
                - (IF Innermost(state).kind \in TileSetScopes THEN 1 ELSE 0))
    /\ [][/\ (EventStep /\ tilesets' # tilesets) =>
                /\ state.kind \in {"TileSet", "Map"}
                /\ state' = StMap
                /\ Extends(tilesets', tilesets)
                /\ opened'.tilesets = Len(tilesets')
          /\ (state.kind = "TileSet" /\ End) =>
                /\ tilesets' = Append(tilesets, state.tileset)
                /\ state' = StMap
          /\ (state.kind = "Tile" /\ End) =>
                /\ state'.kind = "TileSet"
                /\ state'.tileset.origin.kind = "Collection"
                /\ state.tile.id \in DOMAIN state'.tileset.origin.tiles
                /\ state'.tileset.origin.tiles[state.tile.id] = state.tile
                /\ [state'.tileset EXCEPT !.origin = OriginNone]
                      = [state.tileset EXCEPT !.origin = OriginNone]
                /\ tilesets' = tilesets
          /\ (state.kind = "TileSet" /\ ClosesTile) =>
                /\ state'.kind = "TileSet"
                /\ DOMAIN TilesOf(state'.tileset) # {}
                /\ tilesets' = tilesets
          /\ (/\ EventStep
              /\ Innermost(state).kind \in TileSetScopes
              /\ Innermost(state').kind \in TileSetScopes
              /\ TilesOf(Innermost(state').tileset)
                    # TilesOf(Innermost(state).tileset)) =>
                \/ ClosesTile
                \/ Innermost(state').tileset.origin.kind = "Image"
         ]_vars

\* The scope of tile 1 has closed in the first tile-set of the document: the
\* state is TileSet, that tile-set holds the tile and the map holds no
\* tile-set.
C15_Witness ==
    /\ state.kind = "TileSet"
    /\ state.tileset.origin.kind = "Collection"
    /\ 1 \in DOMAIN state.tileset.origin.tiles
    /\ opened.tilesets = 1
    /\ tilesets = <<>>
    /\ Running

ClosesGroup ==
    \/ state.kind = "ObjectGroup" /\ End
    \/ /\ state.kind = "Map"
       /\ \E attributes \in AttributesOf("objectgroup") :
             Empty("objectgroup", attributes)

ClosesObject ==
    \/ state.kind = "Object" /\ End
    \/ /\ state.kind = "ObjectGroup"
       /\ \E attributes \in AttributesOf("object") : Empty("object", attributes)

C21_TileGidTotal ==
    call.fn = "tile_gid" =>
        LET position == call.arg.x + call.arg.y * size.x
        IN  /\ ~panicked
            /\ "result" \in DOMAIN call
            /\ call.result = IF position < Len(tiles)
                             THEN tiles[position + 1]
                             ELSE EMPTY_TILE


(***************************************************************************)
(* Claims about the attributes of a tag.                                   *)
(***************************************************************************)
\* C22: an attribute whose value fails to parse leaves its target field at
\* the value it had before and changes no other field, and the attributes
\* after it are still handled; a value that parses overwrites exactly its
\* field.  Hence, after a tag, each field holds the value of the last
\* attribute of its key that parses, or what it held before when there is
\* none, and every other field of the map and of the scope's entity is what
\* it was.
C22_AttributeParse ==
    call.fn = "tag" =>
        LET attributes == call.arg
            before == call.before
            Parsed(a) ==
                CASE a.key \in {"width", "firstgid", "tilecount"} ->
                        IF ParsesAsUnsigned(chars(a.value))
                        THEN Some(PlaceValue(DigitsOf(chars(a.value))))
                        ELSE NoneOpt
                  [] a.key = "orientation" -> orientation_from_str(a.value)
                  [] a.key = "staggeraxis" -> stagger_axis_from_str(a.value)
                  [] a.key = "name" -> Some(a.value)
            Parsing(key) ==
                {i \in DOMAIN attributes :
                    attributes[i].key = key /\ Parsed(attributes[i]) # NoneOpt}
            New(key, old) ==
                IF Parsing(key) = {} THEN old
                ELSE Unwrap(Parsed(attributes[MaxOf(Parsing(key))]))
        IN  /\ ~panicked
            /\ IF before.state.kind = "Map"
               THEN /\ state = before.state
                    /\ MapNow = [before.map EXCEPT
                                    !.size.x = New("width", @),
                                    !.orientation = New("orientation", @),
                                    !.stagger_axis = New("staggeraxis", @)]
               ELSE /\ MapNow = before.map
                    /\ state = [before.state EXCEPT
                                    !.tileset.firstgid = New("firstgid", @),
                                    !.tileset.count = New("tilecount", @),
                                    !.tileset.name = New("name", @)]

\* The map's width was 3; "40" did not parse as its new width and the
\* orientation after it was registered.
C22_Witness ==
    /\ call.fn = "tag"
    /\ call.arg = <<Attribute("width", "40"), Attribute("orientation", "Hexagonal")>>
    /\ call.before.map.size = Point2(3, 2)
    /\ call.before.map.orientation = "Staggered"
    /\ size = Point2(3, 2)
    /\ orientation = "Hexagonal"


(***************************************************************************)
(* Claims about the end of the stream and unbalanced end tags.             *)
(***************************************************************************)
\* C23: a stream that ends while a scope is still open is a fatal failure:
\* load_map returns a map only when the end of the stream is reached in the
\* root Map scope.
C23_NoPartialMap == returned => state = StMap

C25_TextOutsideData ==
    (call.fn = "text" /\ call.before.state.kind # "Data") =>
        /\ ~panicked
        /\ state = call.before.state
        /\ MapNow = call.before.map

\* A text was received inside a tile while the map held the data of a
\* layer.
C25_Witness ==
    /\ call.fn = "text"
    /\ call.before.state.kind = "Tile"
    /\ call.before.map.tiles = <<7>>
    /\ tiles = <<7>>


(***************************************************************************)
(* Claims about TilesOrigin::insert_collection.                            *)
(***************************************************************************)
\* C26: inserting a tile into an origin that is an image or none makes the
\* origin a collection holding exactly that tile; inserting it into a
\* collection stores the tile under its id, replacing the tile that had the
\* same id, and leaves the other entries as they were.
C26_InsertCollection ==
    call.fn = "insert_collection" =>
        LET origin == call.arg.origin
            tile == call.tile
            result == call.result
        IN  /\ result.kind = "Collection"
            /\ tile.id \in DOMAIN result.tiles
            /\ result.tiles[tile.id] = tile
            /\ IF origin.kind = "Collection"
               THEN /\ DOMAIN result.tiles = DOMAIN origin.tiles \cup {tile.id}
                    /\ \A k \in DOMAIN origin.tiles \ {tile.id} :
                          result.tiles[k] = origin.tiles[k]
               ELSE DOMAIN result.tiles = {tile.id}

\* A tile was inserted into an origin that was an image.
C26_Witness ==
    /\ call.fn = "insert_collection"
    /\ call.arg.origin.kind = "Image"
    /\ call.tile.id = 1
    /\ call.result.kind = "Collection"


(***************************************************************************)
(* Claims about the arithmetic and the soundness of the gid index.         *)
(***************************************************************************)
\* C27: a tile-set whose firstgid was never set keeps firstgid = u16::MAX,
\* and normalizing a map that holds such a tile-set, whatever its count,
\* with tile-sets of explicit firstgid completes and leaves a tile-set of
\* firstgid u16::MAX last.
C27_UnsetSortsLast ==
    /\ TileSetDefault.firstgid = U16Max
    /\ into_child(StMap, "tileset").tileset.firstgid = U16Max
    /\ (\E i \in Positions : tilesets[i].firstgid = U16Max) =>
            /\ ~panicked
            /\ tilesets[Len(tilesets)].firstgid = U16Max

\* C29: reorder_tilesets stays within u16 for the tile-sets it is given: it
\* does not panic, and for no tile-set of the map does firstgid - 1 go below
\* 0 or firstgid + last_id() above u16::MAX.
C29_WithinU16 ==
    /\ ~panicked
    /\ \A i \in Positions :
          /\ tilesets[i].firstgid - 1 >= 0
          /\ tilesets[i].firstgid + last_id(tilesets[i]) <= U16Max

\* C30: after a normalization, slot 0 of the index is None; every slot
\* Some(i) has i below the number of tile-sets; the slots of tile-set i are
\* contiguous and there are last_id() + 1 of them; and when the ranges of
\* the tile-sets are pairwise disjoint the index has as many slots as the
\* greatest last gid plus one, one slot when the map has no tile-set.
C30_IndexSound ==
    Normalized =>
        LET SlotsOf(i) == {k \in DOMAIN tileset_indexes :
                                tileset_indexes[k] = Some(i - 1)}
            First(i) == tilesets[i].firstgid
            Last(i) == tilesets[i].firstgid + last_id(tilesets[i])
            Disjoint == \A i, j \in Positions :
                            i # j => (Last(i) < First(j) \/ Last(j) < First(i))
        IN  /\ tileset_indexes[1] = NoneOpt
            /\ \A k \in DOMAIN tileset_indexes :
                  tileset_indexes[k] # NoneOpt =>
                      Unwrap(tileset_indexes[k]) < Len(tilesets)
            /\ \A i \in Positions :
                  /\ Cardinality(SlotsOf(i)) = last_id(tilesets[i]) + 1
                  /\ \A k \in DOMAIN tileset_indexes :
                        (\E a, b \in SlotsOf(i) : a <= k /\ k <= b) => k \in SlotsOf(i)
            /\ Disjoint =>
                  Len(tileset_indexes) =
                      IF tilesets = <<>> THEN 1
                      ELSE MaxOf({Last(i) : i \in Positions}) + 1


(***************************************************************************)
(* Claims about the origin decoded by the two decoders.                    *)
(***************************************************************************)
\* C28: for a tile-set that has an image child and tile children, in either
\* order, the tag-document decoder and the structured decoder produce the
\* same origin.
C28_SameOrigin ==
    (/\ call.fn = "visit_map"
     /\ \E k \in DOMAIN call.arg : call.arg[k].name = "image"
     /\ \E k \in DOMAIN call.arg : call.arg[k].name = "tile") =>
        state.tileset.origin = call.result.origin


\* C31: a text event received in the Data scope replaces the layer data of
\* the map: afterwards map.tiles holds the values of the tokens of that
\* text and nothing of what it held before, and nothing else has changed.
C31_TextReplaces ==
    (call.fn = "text" /\ call.before.state.kind = "Data") =>
        /\ HoldsParsedTokens(tiles, call.arg, Unstripped)
        /\ state = call.before.state
        /\ [MapNow EXCEPT !.tiles = call.before.map.tiles] = call.before.map

\* A text was received in the Data scope while the map held the data of an
\* earlier layer, which is gone.
C31_Witness ==
    /\ call.fn = "text"
    /\ call.before.state.kind = "Data"
    /\ call.before.map.tiles = <<7>>
    /\ tiles = <<1, 2>>


(***************************************************************************)
(* Claims about elements and their attributes.                             *)
(***************************************************************************)
\* C32: a self-closing element is an open/close pair: once Start and then
\* End have been processed for an element, the state and the map are those
\* that Empty yields for the same element from the same state and map; and
\* what the Empty arm of the loop left is what the handlers of Start and of
\* End yield one after the other.
C32_EmptyIsStartEnd ==
    /\ call.fn = "end" =>
          Handled(state, MapNow) =
              empty(call.before.state, call.name, call.arg, call.before.map)
    /\ call.fn = "empty" =>
          LET started == tag(into_child(call.before.state, call.name),
                             call.arg, call.before.map)
          IN  Handled(state, MapNow) = end(started.state, started.map)

\* A tile-set with attributes was opened from the map scope and closed: it
\* is attached to the map.
C32_Witness ==
    /\ call.fn = "end"
    /\ call.name = "tileset"
    /\ call.arg # <<>>
    /\ call.before.state = StMap
    /\ Len(tilesets) = 1


\* C33: the attributes of an element are written only to the entity of the
\* scope the element opens.  Outside the map scope the map is left as it
\* was; in a Tile or TileImage scope the enclosing tile-set is left as it
\* was, in an Object scope the enclosing group; in Grid, Layer, Data and
\* Unknown scopes nothing is written at all.
C33_AttributesStayInScope ==
    call.fn = "start" =>
        LET child == into_child(call.before.state, call.name)
        IN  child.kind # "Map" =>
                /\ MapNow = call.before.map
                /\ state.kind = child.kind
                /\ child.kind \in {"Tile", "TileImage"} =>
                        state.tileset = child.tileset
                /\ child.kind = "Object" => state.group = child.group
                /\ child.kind \in {"Grid", "Layer", "Data", "Unknown"} =>
                        state = child

\* An object was opened with an id, a name, a width and a height: the
\* object has the size and the map has not.
C33_Witness ==
    /\ call.fn = "start"
    /\ state.kind = "Object"
    /\ state.object.size = Point2(4, 4)
    /\ state.object.id = 4
    /\ state.group.id = 1
    /\ size = Point2(0, 0)


(***************************************************************************)
(* Claims about the tiles of a collection.                                 *)
(***************************************************************************)
\* C34: in the tag-document decoder, the collection of a tile-set has one
\* tile for each distinct id among the tiles closed in the tile-set since
\* its origin last became a collection, that is after its last image child:
\* a tile whose id is missing or does not parse counts with the id 0, and
\* tiles of the same id count once.
C34_CollectionSize ==
    call.fn \in {"load_map", "visit_map"} =>
        LET children == call.arg
            images == {k \in DOMAIN children : children[k].name = "image"}
            closed == {k \in DOMAIN children : \A i \in images : i < k}
            IdOf(c) ==
                IF c.attributes = <<>>
                    \/ ~ParsesAsUnsigned(chars(c.attributes[1].value))
                THEN 0
                ELSE PlaceValue(DigitsOf(chars(c.attributes[1].value)))
            ids == {IdOf(children[k]) : k \in closed}
            origin == state.tileset.origin
        IN  closed # {} =>
                /\ origin.kind = "Collection"
                /\ DOMAIN origin.tiles = ids
                /\ Cardinality(DOMAIN origin.tiles) = Cardinality(ids)
                /\ \A id \in ids : origin.tiles[id].id = id

\* A tile without id, a tile whose id is no number and a tile of id 1 were
\* closed: the collection has the two tiles 0 and 1.
C34_Witness ==
    /\ call.fn = "load_map"
    /\ call.arg = << [name |-> "tile", attributes |-> <<>>],
                     [name |-> "tile", attributes |-> <<Attribute("id", "x")>>],
                     [name |-> "tile", attributes |-> <<Attribute("id", "1")>>] >>
    /\ DOMAIN state.tileset.origin.tiles = {0, 1}

=============================================================================
